---- MODULE Spec2Model ----
(***************************************************************************)
(* PD failover of tidb-operator: the per-pass decision whether an          *)
(* unhealthy PD member is marked as a failure member, and the ordered      *)
(* teardown (deregister, pod, storage claims) of a marked member.          *)
(*                                                                         *)
(* pkg/manager/member/pd_failover.go is modelled from the specification    *)
(* and from the assertions of pd_failover_test.go.                         *)
(*                                                                         *)
(* TiFlash upgrader: one Upgrade pass over the storage group's stateful    *)
(* set, which computes the rolling-update partition of the new set.        *)
(***************************************************************************)
EXTENDS Integers, Sequences, FiniteSets, TLC

\* ------------------------------------------------------------------ sizes
Replicas == 3
PVCsPerPod == 2
PDFailoverPeriod == 1
MaxTime == 3
MaxCap == 1
MaxUID == 1

Ordinals == 0 .. (Replicas - 1)
PeerOnly == Replicas
PeerNames == {0, PeerOnly}
Claims == Ordinals \X (1 .. PVCsPerPod)
ClaimOrders == {<<1, 2>>, <<2, 1>>}

\* ------------------------------------------------------------- member ids
\* A member id is stored as text: a sequence of characters.
Digits == <<"0", "1", "2", "3", "4", "5", "6", "7", "8", "9">>

DigitValue(c) ==
    IF \E k \in 1 .. Len(Digits) : Digits[k] = c
    THEN (CHOOSE k \in 1 .. Len(Digits) : Digits[k] = c) - 1
    ELSE -1

RECURSIVE ParseUintFrom(_, _)
ParseUintFrom(s, acc) ==
    IF s = <<>> THEN acc
    ELSE IF DigitValue(Head(s)) < 0 THEN -1
    ELSE ParseUintFrom(Tail(s), 10 * acc + DigitValue(Head(s)))

\* strconv.ParseUint(text, 10, 64): -1 stands for the syntax error.
\* faulty variant: text that is no number is read as 0
ParseUintLenient(s) == IF ParseUintFrom(s, 0) < 0 THEN 0 ELSE ParseUintFrom(s, 0)

ParseUint(s) == IF s = <<>> THEN -1 ELSE ParseUintFrom(s, 0)

MemberIDText(i) ==
    IF i = 0 THEN <<"0">>
    ELSE IF i = 1 THEN <<"1", "2">>
    ELSE IF i = 2 THEN <<"2">>
    ELSE <<"3">>

\* ------------------------------------------------------------------ state
VARIABLES
    Members,           \* tc.Status.PD.Members, keyed by pod ordinal
    PeerMembers,       \* tc.Status.PD.PeerMembers
    FailureMembers,    \* tc.Status.PD.FailureMembers
    Synced,            \* tc.Status.PD.Synced
    MaxFailoverCount,  \* tc.Spec.PD.MaxFailoverCount
    pods,              \* pod directory: "present" | "terminating" | "absent"
    pvcs,              \* claim directory: per claim name its phase and the uid it carries
    now,               \* wall clock
    err,               \* what the last Failover pass returned
    events,            \* events the last Failover pass recorded
    calls,             \* external calls the last Failover pass issued
    SpecReplicas,      \* tc.Spec.PD.Replicas
    PDPhase,           \* tc.Status.PD.Phase
    TiFlash,           \* tc.Status.TiFlash: Phase, Synced, StatefulSet revisions, Stores
    TiFlashVersion,    \* tc.TiFlashVersion(): the image tag
    tiflashPods,       \* what the pod lister holds for each ordinal of the set
    StoreStatus,       \* what GetStoreStatus answers for each ordinal
    oldSet,            \* the stateful set as it is
    newSet,            \* the stateful set being built
    upgradeErr,        \* what the last Upgrade pass returned
    upgradeLog,        \* lookups and warnings of the last Upgrade pass
    kubeObject,        \* the volume or config map as the API server stores it
    listerObject,      \* the same object as the lister's cache holds it
    updateKind,        \* which update runs: "pv" (UpdateMetaInfo) | "configmap"
    held,              \* pv / cm: the object the loop sends
    wanted,            \* labels and ann / cmData: taken before the loop
    attempts,          \* attempts RetryOnConflict has made in this call
    updateState,       \* "idle" | "running" | "returned"
    updateErr,         \* updateErr of the last attempt; what the call returned
    updated            \* updatePV / updatedCm: the object returned, if any

failoverVars == <<Members, PeerMembers, FailureMembers, Synced, MaxFailoverCount,
                  pods, pvcs, now, err, events, calls>>

upgradeVars == <<PDPhase, TiFlash, TiFlashVersion, tiflashPods, StoreStatus,
                 oldSet, newSet, upgradeErr, upgradeLog>>

updateVars == <<kubeObject, listerObject, updateKind, held, wanted, attempts,
                updateState, updateErr, updated>>

vars == <<Members, PeerMembers, FailureMembers, Synced, MaxFailoverCount,
          pods, pvcs, now, err, events, calls, SpecReplicas,
          PDPhase, TiFlash, TiFlashVersion, tiflashPods, StoreStatus,
          oldSet, newSet, upgradeErr, upgradeLog,
          kubeObject, listerObject, updateKind, held, wanted, attempts,
          updateState, updateErr, updated>>

EmptyMap == [x \in {} |-> TRUE]

Put(f, k, v) == [x \in DOMAIN f \cup {k} |-> IF x = k THEN v ELSE f[x]]

\* ---------------------------------------------------------------- HealthObserver
UnhealthyMembers(M) == {i \in DOMAIN M : ~M[i].Health}

\* faulty variant: the zero time is read as a time like any other
IsZeroIgnored(t) == FALSE

IsZero(t) == t = 0

\* faulty variant: the operands of the subtraction are swapped
PastDeadlineSwapped(t, since) == since - t < PDFailoverPeriod

PastDeadline(t, since) == t - since > PDFailoverPeriod

\* ---------------------------------------------------------------- QuorumGuard
\* the voting set: Members united with PeerMembers, one voter per id
VoterIDs(M, P) == {M[i].ID : i \in DOMAIN M} \cup {P[p].ID : p \in DOMAIN P}

VoterHealthy(M, P, id) ==
    \/ \E i \in DOMAIN M : M[i].ID = id /\ M[i].Health
    \/ \E p \in DOMAIN P : P[p].ID = id /\ P[p].Health

TotalVoters(M, P) == Cardinality(VoterIDs(M, P))

HealthyExcluding(M, P, cand) ==
    Cardinality({id \in VoterIDs(M, P) \ {cand} : VoterHealthy(M, P, id)})

\* faulty variant: a voter listed in both mappings is counted twice
HealthyVotersNoDedup(M, P) ==
    Cardinality({i \in DOMAIN M : M[i].Health}) + Cardinality({p \in DOMAIN P : P[p].Health})

HealthyVoters(M, P) ==
    Cardinality({id \in VoterIDs(M, P) : VoterHealthy(M, P, id)})

\* faulty variant: the candidate is not excluded from the healthy voters
QuorumGuardCountsCandidate(M, P, cand) == 2 * HealthyVoters(M, P) > TotalVoters(M, P)

\* faulty variant: a tie is accepted
QuorumGuardAtLeastHalf(M, P, cand) == 2 * HealthyExcluding(M, P, cand) >= TotalVoters(M, P)

QuorumGuard(M, P, cand) == 2 * HealthyExcluding(M, P, cand) > TotalVoters(M, P)

\* faulty variant: the pass goes on without a majority of healthy voters
isPDInQuorumSkipped(M, P) == TRUE

isPDInQuorum(M, P) == 2 * HealthyVoters(M, P) > TotalVoters(M, P)

\* ---------------------------------------------------------------- one pass
\* What a pass has produced so far: its return value, the events and external
\* calls it issued, and the directories as its deletions left them.
NewPass(p, c) == [err |-> "nil", events |-> <<>>, calls |-> <<>>, pods |-> p, pvcs |-> c]

Event(reason, i) == [reason |-> reason, pod |-> i, peer |-> FALSE]

\* the event recorded for an unhealthy entry of PeerMembers
PeerEvent(p) == [reason |-> "PDMemberUnhealthy", pod |-> p, peer |-> TRUE]

Call(op, i, k, ok) == [op |-> op, pod |-> i, claim |-> k, ok |-> ok]

\* map iteration starts anywhere: the ordinals from start on, cyclically
IterOrder(start) == [k \in 1 .. Replicas |-> (start + k - 1) % Replicas]

RECURSIVE UnhealthyEvents(_, _)
UnhealthyEvents(M, i) ==
    IF i >= Replicas THEN <<>>
    ELSE (IF i \in DOMAIN M /\ ~M[i].Health THEN <<Event("PDMemberUnhealthy", i)>> ELSE <<>>)
         \o UnhealthyEvents(M, i + 1)

RECURSIVE PeerUnhealthyEvents(_, _)
PeerUnhealthyEvents(P, order) ==
    IF order = <<>> THEN <<>>
    ELSE (IF Head(order) \in DOMAIN P /\ ~P[Head(order)].Health
          THEN <<PeerEvent(Head(order))>> ELSE <<>>)
         \o PeerUnhealthyEvents(P, Tail(order))

\* faulty variant: an unhealthy member is reported twice
HealthEventsDoubled(M, P) ==
    UnhealthyEvents(M, 0) \o UnhealthyEvents(M, 0)
    \o PeerUnhealthyEvents(P, <<0, PeerOnly>>)

\* one event for every unhealthy entry of Members, then one for every
\* unhealthy entry of PeerMembers
HealthEvents(M, P) == UnhealthyEvents(M, 0) \o PeerUnhealthyEvents(P, <<0, PeerOnly>>)

\* ---------------------------------------------------------------- FailureTracker
\* the identity of the claim a claim name currently holds
UIDOf(c, x) == <<x[1], x[2], c[x].uid>>

ClaimsOfPod(c, i) == {x \in Claims : x[1] = i /\ c[x].phase # "absent"}

\* faulty variant: claims marked for deletion are left out
ResolvePVCFromPodPresentOnly(p, c, i) ==
    IF p[i] = "absent" THEN {}
    ELSE {UIDOf(c, x) : x \in {y \in ClaimsOfPod(c, i) : c[y].phase = "present"}}

\* the identities of the claims attached to the member's pod; none when the pod
\* cannot be located
ResolvePVCFromPod(p, c, i) ==
    IF p[i] = "absent" THEN {} ELSE {UIDOf(c, x) : x \in ClaimsOfPod(c, i)}

\* the conditions under which the marking loop passes over a member
SkipMember(M, P, F, t, i) ==
    \/ IsZero(M[i].LastTransitionTime)
    \/ M[i].Health
    \/ ~PastDeadline(t, M[i].LastTransitionTime)
    \/ i \in DOMAIN F
    \/ ~QuorumGuard(M, P, M[i].ID)

RECURSIVE FirstCandidate(_, _, _, _, _)
FirstCandidate(M, P, F, t, order) ==
    IF order = <<>> THEN -1
    ELSE IF Head(order) \in DOMAIN M /\ ~SkipMember(M, P, F, t, Head(order)) THEN Head(order)
    ELSE FirstCandidate(M, P, F, t, Tail(order))

NewFailureMember(M, i, uids) ==
    [PodName |-> i, MemberID |-> M[i].ID, PVCUIDSet |-> uids, MemberDeleted |-> FALSE]

\* faulty variant: a pod without claims is marked with an empty claim set
tryToMarkAPeerAsFailureLenient(ctx, M, P, F, t, start) ==
    LET i == FirstCandidate(M, P, F, t, IterOrder(start))
        uids == ResolvePVCFromPod(ctx.pods, ctx.pvcs, i)
    IN  IF i < 0 THEN [ctx |-> ctx, F |-> F]
        ELSE [ctx |-> [ctx EXCEPT !.err = "marking as failure",
                                  !.events = Append(@, Event("PDMemberUnhealthy", i))],
              F |-> Put(F, i, NewFailureMember(M, i, uids))]

\* faulty variant: the error is returned and the new entry is not kept
tryToMarkAPeerAsFailureDropsEntry(ctx, M, P, F, t, start) ==
    LET i == FirstCandidate(M, P, F, t, IterOrder(start))
        uids == ResolvePVCFromPod(ctx.pods, ctx.pvcs, i)
    IN  IF i < 0 THEN [ctx |-> ctx, F |-> F]
        ELSE IF ctx.pods[i] # "absent" /\ uids = {}
        THEN [ctx |-> [ctx EXCEPT !.err = "no pvc found for pod"], F |-> F]
        ELSE [ctx |-> [ctx EXCEPT !.err = "marking as failure",
                                  !.events = Append(@, Event("PDMemberUnhealthy", i))],
              F |-> F]

\* returns the pass and the failure members after it
tryToMarkAPeerAsFailure(ctx, M, P, F, t, start) ==
    LET i == FirstCandidate(M, P, F, t, IterOrder(start))
        uids == ResolvePVCFromPod(ctx.pods, ctx.pvcs, i)
    IN  IF i < 0 THEN [ctx |-> ctx, F |-> F]
        ELSE IF ctx.pods[i] # "absent" /\ uids = {}
        THEN [ctx |-> [ctx EXCEPT !.err = "no pvc found for pod"], F |-> F]
        ELSE [ctx |-> [ctx EXCEPT !.err = "marking as failure",
                                  !.events = Append(@, Event("PDMemberUnhealthy", i))],
              F |-> Put(F, i, NewFailureMember(M, i, uids))]

\* ---------------------------------------------------------------- MemberReaper
Failed(ctx) == ctx.err # "nil"

DeleteMember(ctx, i, id, fail) ==
    IF Failed(ctx) THEN ctx
    ELSE IF fail
    THEN [ctx EXCEPT !.err = "failed to delete member",
                     !.calls = Append(@, Call("DeleteMemberByID", i, id, FALSE))]
    ELSE [ctx EXCEPT !.calls = Append(@, Call("DeleteMemberByID", i, id, TRUE)),
                     !.events = Append(@, Event("PDMemberDeleted", i))]

\* faulty variant: the pod is never deleted
DeletePodForgets(ctx, i, fail) == ctx

\* faulty variant: the delete is issued without looking the pod up
DeletePodBlind(ctx, i, fail) ==
    IF Failed(ctx) THEN ctx
    ELSE IF fail
    THEN [ctx EXCEPT !.err = "delete pod: API server failed",
                     !.calls = Append(@, Call("DeletePod", i, 0, FALSE))]
    ELSE [ctx EXCEPT !.pods[i] = "absent",
                     !.calls = Append(@, Call("DeletePod", i, 0, TRUE))]

DeletePod(ctx, i, fail) ==
    IF Failed(ctx) THEN ctx
    ELSE IF ctx.pods[i] # "present" THEN ctx
    ELSE IF fail
    THEN [ctx EXCEPT !.err = "delete pod: API server failed",
                     !.calls = Append(@, Call("DeletePod", i, 0, FALSE))]
    ELSE [ctx EXCEPT !.pods[i] = "absent",
                     !.calls = Append(@, Call("DeletePod", i, 0, TRUE))]

\* faulty variant: a claim marked for deletion is deleted again
ClaimWantedAnyPhase(ctx, recorded, x) ==
    /\ ctx.pvcs[x].phase # "absent"
    /\ (recorded = {} \/ UIDOf(ctx.pvcs, x) \in recorded)

\* faulty variant: the recorded set is not consulted
ClaimWantedIgnoresSet(ctx, recorded, x) == ctx.pvcs[x].phase = "present"

ClaimWanted(ctx, recorded, x) ==
    /\ ctx.pvcs[x].phase = "present"
    /\ (recorded = {} \/ UIDOf(ctx.pvcs, x) \in recorded)

RECURSIVE DeletePVCs(_, _, _, _, _)
DeletePVCs(ctx, recorded, i, order, failPVC) ==
    IF order = <<>> \/ Failed(ctx) THEN ctx
    ELSE LET x == <<i, Head(order)>>
             next == IF ~ClaimWanted(ctx, recorded, x) THEN ctx
                     ELSE IF Head(order) \in failPVC
                     THEN [ctx EXCEPT !.err = "delete pvc: API server failed",
                                      !.calls = Append(@, Call("DeletePVC", i, Head(order), FALSE))]
                     ELSE [ctx EXCEPT !.pvcs[x].phase = "absent",
                                      !.calls = Append(@, Call("DeletePVC", i, Head(order), TRUE))]
         IN  DeletePVCs(next, recorded, i, Tail(order), failPVC)

\* faulty variant: the pod is deleted before the member is deregistered
ReapStepsPodFirst(ctx, fm, i, id, in) ==
    DeletePVCs(DeleteMember(DeletePod(ctx, i, in.delPodFailed), i, id, in.delMemberFailed),
               fm.PVCUIDSet, i, in.order, in.failPVC)

\* the teardown in its order: deregister, pod, claims
ReapSteps(ctx, fm, i, id, in) ==
    DeletePVCs(DeletePod(DeleteMember(ctx, i, id, in.delMemberFailed), i, in.delPodFailed),
               fm.PVCUIDSet, i, in.order, in.failPVC)

\* faulty variant: the flag is set whatever the teardown returned
setMemberDeletedAlways(ctx, F, i) == [F EXCEPT ![i].MemberDeleted = TRUE]

\* faulty variant: the recorded claim set is emptied when the teardown is done
setMemberDeletedClearsSet(ctx, F, i) ==
    IF Failed(ctx) THEN F ELSE [F EXCEPT ![i].MemberDeleted = TRUE, ![i].PVCUIDSet = {}]

\* faulty variant: the flag is never set
setMemberDeletedNever(ctx, F, i) == F

setMemberDeleted(ctx, F, i) ==
    IF Failed(ctx) THEN F ELSE [F EXCEPT ![i].MemberDeleted = TRUE]

NotDeleted(F) == {i \in DOMAIN F : ~F[i].MemberDeleted}

RECURSIVE FirstNotDeleted(_, _)
FirstNotDeleted(F, order) ==
    IF order = <<>> THEN -1
    ELSE IF Head(order) \in NotDeleted(F) THEN Head(order)
    ELSE FirstNotDeleted(F, Tail(order))

tryToDeleteAFailureMember(ctx, F, in) ==
    LET i == FirstNotDeleted(F, IterOrder(in.start))
        id == ParseUint(F[i].MemberID)
        done == ReapSteps(ctx, F[i], i, id, in)
    IN  IF i < 0 THEN [ctx |-> ctx, F |-> F]
        ELSE IF id < 0 THEN [ctx |-> [ctx EXCEPT !.err = "invalid syntax"], F |-> F]
        ELSE [ctx |-> done, F |-> setMemberDeleted(done, F, i)]

\* ---------------------------------------------------------------- Failover
\* faulty variant: one failure member more than the cap is let through
CapReachedOffByOne(F, cap) == Cardinality(DOMAIN F) > cap

\* faulty variant: the cap is not looked at
CapReachedNever(F, cap) == FALSE

\* no further member is marked once the failure members number the cap
CapReached(F, cap) == Cardinality(DOMAIN F) >= cap

PassInputs ==
    [delMemberFailed : BOOLEAN, delPodFailed : BOOLEAN,
     failPVC : SUBSET (1 .. PVCsPerPod), order : ClaimOrders, start : Ordinals]

\* the passes in which every external call succeeds; the claims are deleted
\* in their listed order
CleanInputs ==
    {in \in PassInputs :
        ~in.delMemberFailed /\ ~in.delPodFailed /\ in.failPVC = {} /\ in.order = <<1, 2>>}

\* faulty variant: the unhealthy members are reported before the status is
\* found not synced
FailoverPassEventsFirst(M, P, F, synced, cap, p, c, t, in) ==
    LET ctx0 == NewPass(p, c)
        ctx1 == [ctx0 EXCEPT !.events = HealthEvents(M, P)]
    IN  IF ~synced
        THEN [ctx |-> [ctx1 EXCEPT !.err = "pd status sync failed"], F |-> F]
        ELSE IF ~isPDInQuorum(M, P)
        THEN [ctx |-> [ctx1 EXCEPT !.err = "pd cluster is not health"], F |-> F]
        ELSE IF NotDeleted(F) # {}
        THEN tryToDeleteAFailureMember(ctx1, F, in)
        ELSE IF CapReached(F, cap)
        THEN [ctx |-> ctx1, F |-> F]
        ELSE tryToMarkAPeerAsFailure(ctx1, M, P, F, t, in.start)

FailoverPass(M, P, F, synced, cap, p, c, t, in) ==
    LET ctx0 == NewPass(p, c)
        ctx1 == [ctx0 EXCEPT !.events = HealthEvents(M, P)]
    IN  IF ~synced
        THEN [ctx |-> [ctx0 EXCEPT !.err = "pd status sync failed"], F |-> F]
        ELSE IF ~isPDInQuorum(M, P)
        THEN [ctx |-> [ctx1 EXCEPT !.err = "pd cluster is not health"], F |-> F]
        ELSE IF NotDeleted(F) # {}
        THEN tryToDeleteAFailureMember(ctx1, F, in)
        ELSE IF CapReached(F, cap)
        THEN [ctx |-> ctx1, F |-> F]
        ELSE tryToMarkAPeerAsFailure(ctx1, M, P, F, t, in.start)

FailoverWith(Ins) ==
    \E in \in Ins :
        \E r \in {FailoverPass(Members, PeerMembers, FailureMembers, Synced,
                               MaxFailoverCount, pods, pvcs, now, in)} :
            /\ FailureMembers' = r.F
            /\ pods' = r.ctx.pods
            /\ pvcs' = r.ctx.pvcs
            /\ err' = r.ctx.err
            /\ events' = r.ctx.events
            /\ calls' = r.ctx.calls
            /\ UNCHANGED <<Members, PeerMembers, Synced, MaxFailoverCount, now>>
            /\ UNCHANGED <<SpecReplicas, upgradeVars, updateVars>>

\* the passes in which any external call may fail; the member iteration
\* starts at the first member
FaultInputs == {in \in PassInputs : in.start = 0}

Failover == FailoverWith(FaultInputs)

FailoverClean == FailoverWith(CleanInputs)

\* ---------------------------------------------------------------- Recover
\* faulty variant: the entries are kept and only their flags are reset
RecoverResetsFlags ==
    /\ FailureMembers # EmptyMap
    /\ FailureMembers' = [i \in DOMAIN FailureMembers |->
                             [FailureMembers[i] EXCEPT !.MemberDeleted = FALSE]]
    /\ err' = "nil"
    /\ events' = <<>>
    /\ calls' = <<>>
    /\ UNCHANGED <<Members, PeerMembers, Synced, MaxFailoverCount, pods, pvcs, now>>
    /\ UNCHANGED <<SpecReplicas, upgradeVars, updateVars>>

\* faulty variant: the replicas added for the failure members are taken back
RecoverScalesIn ==
    /\ FailureMembers' = EmptyMap
    /\ SpecReplicas' = IF SpecReplicas >= Cardinality(DOMAIN FailureMembers)
                       THEN SpecReplicas - Cardinality(DOMAIN FailureMembers)
                       ELSE 0
    /\ err' = "nil"
    /\ events' = <<>>
    /\ calls' = <<>>
    /\ UNCHANGED <<Members, PeerMembers, Synced, MaxFailoverCount, pods, pvcs, now>>
    /\ UNCHANGED <<upgradeVars, updateVars>>

Recover ==
    /\ FailureMembers' = EmptyMap
    /\ err' = "nil"
    /\ events' = <<>>
    /\ calls' = <<>>
    /\ UNCHANGED <<Members, PeerMembers, Synced, MaxFailoverCount, pods, pvcs, now>>
    /\ UNCHANGED <<SpecReplicas, upgradeVars, updateVars>>

\* ---------------------------------------------------------------- environment
\* Between passes the result of the last pass has been consumed.
Consumed == err' = "nil" /\ events' = <<>> /\ calls' = <<>>

Tick ==
    /\ Synced
    /\ now < MaxTime
    /\ now' = now + 1
    /\ Consumed
    /\ UNCHANGED <<Members, PeerMembers, FailureMembers, Synced, MaxFailoverCount, pods, pvcs>>
    /\ UNCHANGED <<SpecReplicas, upgradeVars, updateVars>>

\* the status sync reports a health transition of a member
SyncMember(i) ==
    /\ Synced
    /\ Members' = [Members EXCEPT ![i].Health = ~@, ![i].LastTransitionTime = now]
    /\ Consumed
    /\ UNCHANGED <<PeerMembers, FailureMembers, Synced, MaxFailoverCount, pods, pvcs, now>>
    /\ UNCHANGED <<SpecReplicas, upgradeVars, updateVars>>

SyncPeer(p) ==
    /\ Synced
    /\ p \in DOMAIN PeerMembers
    /\ PeerMembers' = [PeerMembers EXCEPT ![p].Health = ~@]
    /\ Consumed
    /\ UNCHANGED <<Members, FailureMembers, Synced, MaxFailoverCount, pods, pvcs, now>>
    /\ UNCHANGED <<SpecReplicas, upgradeVars, updateVars>>

\* the status sync fails, or succeeds again
SyncStatus ==
    /\ Synced' = ~Synced
    /\ Consumed
    /\ UNCHANGED <<Members, PeerMembers, FailureMembers, MaxFailoverCount, pods, pvcs, now>>
    /\ UNCHANGED <<SpecReplicas, upgradeVars, updateVars>>

\* the platform starts terminating the pod of an unhealthy member
EvictPod(i) ==
    /\ ~Members[i].Health
    /\ pods[i] = "present"
    /\ pods' = [pods EXCEPT ![i] = "terminating"]
    /\ Consumed
    /\ UNCHANGED <<Members, PeerMembers, FailureMembers, Synced, MaxFailoverCount, pvcs, now>>
    /\ UNCHANGED <<SpecReplicas, upgradeVars, updateVars>>

\* a claim of an unhealthy member is marked for deletion from outside
TerminatePVC(x) ==
    /\ ~Members[x[1]].Health
    /\ pvcs[x].phase = "present"
    /\ pvcs' = [pvcs EXCEPT ![x].phase = "terminating"]
    /\ Consumed
    /\ UNCHANGED <<Members, PeerMembers, FailureMembers, Synced, MaxFailoverCount, pods, now>>
    /\ UNCHANGED <<SpecReplicas, upgradeVars, updateVars>>

\* the platform creates a deleted claim anew: same name, a new uid
RecreatePVC(x) ==
    /\ pvcs[x].phase = "absent"
    /\ pvcs[x].uid < MaxUID
    /\ pvcs' = [pvcs EXCEPT ![x] = [phase |-> "present", uid |-> @.uid + 1]]
    /\ Consumed
    /\ UNCHANGED <<Members, PeerMembers, FailureMembers, Synced, MaxFailoverCount, pods, now>>
    /\ UNCHANGED <<SpecReplicas, upgradeVars, updateVars>>

\* ================================================================ TiFlash upgrader
MaxOrdinal == 2
MaxDefects == 2
MaxVersion == 3

StoreOrdinals == 0 .. MaxOrdinal

UpgradePhase == "Upgrade"
ScalePhase == "Scale"
NormalPhase == "Normal"

TiKVStateUp == "Up"
Running == "Running"

\* the image tags the cluster may run, as text
TagLastest == <<"l", "a", "s", "t", "e", "s", "t">>
TagNightly == <<"n", "i", "g", "h", "t", "l", "y">>
TagLatest == <<"l", "a", "t", "e", "s", "t">>
TagV511 == <<"v", "5", ".", "1", ".", "1">>
TagV512Alpha == <<"v", "5", ".", "1", ".", "2", "-", "a", "l", "p", "h", "a">>
TagV512 == <<"v", "5", ".", "1", ".", "2">>
TagShort60 == <<"6", ".", "0">>
TagV51x == <<"v", "5", ".", "1", ".", "x">>

Tags == {TagLastest, TagNightly, TagLatest, TagV511, TagV512Alpha, TagV512,
         TagShort60, TagV51x}

\* the decimal digits a text starts with: their value, the rest of the text
\* and how many they are
RECURSIVE ReadDigits(_, _, _)
ReadDigits(s, acc, n) ==
    IF s = <<>> \/ DigitValue(Head(s)) < 0 THEN [value |-> acc, rest |-> s, count |-> n]
    ELSE ReadDigits(Tail(s), 10 * acc + DigitValue(Head(s)), n + 1)

\* an optional "." and number; count -1 when no digit follows the dot
ReadDotNumber(s) ==
    IF s # <<>> /\ Head(s) = "."
    THEN IF ReadDigits(Tail(s), 0, 0).count = 0
         THEN [value |-> 0, rest |-> s, count |-> -1]
         ELSE ReadDigits(Tail(s), 0, 0)
    ELSE [value |-> 0, rest |-> s, count |-> 0]

IdentChars ==
    {"a", "b", "c", "d", "e", "f", "g", "h", "i", "j", "k", "l", "m", "n", "o", "p",
     "q", "r", "s", "t", "u", "v", "w", "x", "y", "z", "-", "."}

\* what may follow the numbers: nothing (0), a pre-release part (1), or
\* something that is no version (-1)
ReadPreRelease(s) ==
    IF s = <<>> THEN 0
    ELSE IF Head(s) = "-" /\ Len(s) > 1
            /\ \A k \in 2 .. Len(s) : s[k] \in IdentChars \/ DigitValue(s[k]) >= 0
    THEN 1
    ELSE -1

\* semver.NewVersion(tag): <<major, minor, patch, pre-release>> of a tag that
\* parses, with 0 for a minor or patch number left out; <<>> for the parse error
NewVersion(tag) ==
    LET body == IF tag # <<>> /\ Head(tag) = "v" THEN Tail(tag) ELSE tag
        major == ReadDigits(body, 0, 0)
        minor == ReadDotNumber(major.rest)
        patch == IF minor.count > 0 THEN ReadDotNumber(minor.rest)
                 ELSE [value |-> 0, rest |-> minor.rest, count |-> 0]
    IN  IF major.count = 0 \/ minor.count < 0 \/ patch.count < 0 THEN <<>>
        ELSE IF ReadPreRelease(patch.rest) < 0 THEN <<>>
        ELSE <<major.value, minor.value, patch.value, ReadPreRelease(patch.rest)>>

\* faulty variant: a pre-release of 5.1.2 counts as below the constraint
TiFlashLessThanV512PreBelow(v) ==
    \/ v[1] < 5
    \/ v[1] = 5 /\ v[2] < 1
    \/ v[1] = 5 /\ v[2] = 1 /\ v[3] < 2
    \/ v[1] = 5 /\ v[2] = 1 /\ v[3] = 2 /\ v[4] = 1

\* a version against the constraint ">=v5.1.2-0": "0" is the lowest
\* pre-release there is, so every pre-release of 5.1.2 is at or above it
TiFlashLessThanV512(v) ==
    \/ v[1] < 5
    \/ v[1] = 5 /\ v[2] < 1
    \/ v[1] = 5 /\ v[2] = 1 /\ v[3] < 2

tiflashVersionsNeedCheckStatus == {TagLastest, TagNightly}

\* faulty variant: the store status is never asked for
needCheckStatusNever(version) == FALSE

needCheckStatus(version) ==
    \/ version \in tiflashVersionsNeedCheckStatus
    \/ NewVersion(version) # <<>> /\ ~TiFlashLessThanV512(NewVersion(version))

TiFlashScaling(tf) == tf.Phase = ScalePhase

\* faulty variant: the comparison is read the other way round
templateEqualInverted(new, old) == ~(old.LastApplied # "none" /\ new.Template = old.LastApplied)

templateEqual(new, old) == old.LastApplied # "none" /\ new.Template = old.LastApplied

RollingUpdateAt(p) == [Type |-> "RollingUpdate", HasRollingUpdate |-> TRUE, Partition |-> p]

setUpgradePartition(set, p) == [set EXCEPT !.UpdateStrategy = RollingUpdateAt(p)]

StoresOfOrdinal(tf, i) == {s \in tf.Stores : s.PodName = i}

HasStore(tf, i) == StoresOfOrdinal(tf, i) # {}

getTiFlashStoreByOrdinal(tf, i) == CHOOSE s \in StoresOfOrdinal(tf, i) : TRUE

Looked(log, what, i) == Append(log, <<what, i>>)

ScanResult(e, set, log) == [err |-> e, newSet |-> set, log |-> log]

\* faulty variant: the state of the store is not looked at
TargetPodErrorIgnoresStore(tf, version, P, S, i) ==
    IF ~P[i].ready THEN "pod is not ready"
    ELSE IF ~needCheckStatus(version) THEN "nil"
    ELSE IF S[i] = "error" THEN "get store status failed"
    ELSE IF S[i] # Running THEN "store status is not Running"
    ELSE "nil"

\* faulty variant: the readiness of the pod is not looked at
TargetPodErrorIgnoresReady(tf, version, P, S, i) ==
    IF getTiFlashStoreByOrdinal(tf, i).State # TiKVStateUp THEN "store state is not UP"
    ELSE IF ~needCheckStatus(version) THEN "nil"
    ELSE IF S[i] = "error" THEN "get store status failed"
    ELSE IF S[i] # Running THEN "store status is not Running"
    ELSE "nil"

\* the checks of one pod that is on the update revision
TargetPodError(tf, version, P, S, i) ==
    IF ~P[i].ready THEN "pod is not ready"
    ELSE IF getTiFlashStoreByOrdinal(tf, i).State # TiKVStateUp THEN "store state is not UP"
    ELSE IF ~needCheckStatus(version) THEN "nil"
    ELSE IF S[i] = "error" THEN "get store status failed"
    ELSE IF S[i] # Running THEN "store status is not Running"
    ELSE "nil"

TargetPodLog(tf, version, P, S, i, log) ==
    IF P[i].ready /\ getTiFlashStoreByOrdinal(tf, i).State = TiKVStateUp
       /\ needCheckStatus(version)
    THEN Looked(log, "status", i)
    ELSE log

\* faulty variant: the scan goes on below a pod of another revision
RECURSIVE UpgradeScanGoesOn(_, _, _, _, _, _, _)
UpgradeScanGoesOn(i, tf, version, P, S, set, log) ==
    IF i < 0 THEN ScanResult("nil", set, log)
    ELSE IF ~HasStore(tf, i)
    THEN UpgradeScanGoesOn(i - 1, tf, version, P, S, setUpgradePartition(set, i),
                           Looked(log, "store", i))
    ELSE IF ~P[i].exists
    THEN ScanResult("failed to get pod", set, Looked(Looked(log, "store", i), "pod", i))
    ELSE IF P[i].revision = "none"
    THEN ScanResult("pod has no label", set, Looked(Looked(log, "store", i), "pod", i))
    ELSE IF P[i].revision = tf.UpdateRevision
    THEN IF TargetPodError(tf, version, P, S, i) # "nil"
         THEN ScanResult(TargetPodError(tf, version, P, S, i), set,
                         TargetPodLog(tf, version, P, S, i,
                                      Looked(Looked(log, "store", i), "pod", i)))
         ELSE UpgradeScanGoesOn(i - 1, tf, version, P, S, set,
                                TargetPodLog(tf, version, P, S, i,
                                             Looked(Looked(log, "store", i), "pod", i)))
    ELSE UpgradeScanGoesOn(i - 1, tf, version, P, S, setUpgradePartition(set, i),
                           Looked(Looked(log, "store", i), "pod", i))

\* faulty variant: the scan ends at an ordinal without a store record
RECURSIVE UpgradeScanStopsAtMissing(_, _, _, _, _, _, _)
UpgradeScanStopsAtMissing(i, tf, version, P, S, set, log) ==
    IF i < 0 THEN ScanResult("nil", set, log)
    ELSE IF ~HasStore(tf, i)
    THEN ScanResult("nil", setUpgradePartition(set, i), Looked(log, "store", i))
    ELSE IF ~P[i].exists
    THEN ScanResult("failed to get pod", set, Looked(Looked(log, "store", i), "pod", i))
    ELSE IF P[i].revision = "none"
    THEN ScanResult("pod has no label", set, Looked(Looked(log, "store", i), "pod", i))
    ELSE IF P[i].revision = tf.UpdateRevision
    THEN IF TargetPodError(tf, version, P, S, i) # "nil"
         THEN ScanResult(TargetPodError(tf, version, P, S, i), set,
                         TargetPodLog(tf, version, P, S, i,
                                      Looked(Looked(log, "store", i), "pod", i)))
         ELSE UpgradeScanStopsAtMissing(i - 1, tf, version, P, S, set,
                                        TargetPodLog(tf, version, P, S, i,
                                                     Looked(Looked(log, "store", i), "pod", i)))
    ELSE ScanResult("nil", setUpgradePartition(set, i),
                    Looked(Looked(log, "store", i), "pod", i))

\* faulty variant: a pod that cannot be fetched or has no revision label is
\* passed over as if it were upgraded
RECURSIVE UpgradeScanSkipsUnknown(_, _, _, _, _, _, _)
UpgradeScanSkipsUnknown(i, tf, version, P, S, set, log) ==
    IF i < 0 THEN ScanResult("nil", set, log)
    ELSE IF ~HasStore(tf, i)
    THEN UpgradeScanSkipsUnknown(i - 1, tf, version, P, S, setUpgradePartition(set, i),
                                 Looked(log, "store", i))
    ELSE IF ~P[i].exists \/ P[i].revision = "none"
    THEN UpgradeScanSkipsUnknown(i - 1, tf, version, P, S, set,
                                 Looked(Looked(log, "store", i), "pod", i))
    ELSE IF P[i].revision = tf.UpdateRevision
    THEN IF TargetPodError(tf, version, P, S, i) # "nil"
         THEN ScanResult(TargetPodError(tf, version, P, S, i), set,
                         TargetPodLog(tf, version, P, S, i,
                                      Looked(Looked(log, "store", i), "pod", i)))
         ELSE UpgradeScanSkipsUnknown(i - 1, tf, version, P, S, set,
                                      TargetPodLog(tf, version, P, S, i,
                                                   Looked(Looked(log, "store", i), "pod", i)))
    ELSE ScanResult("nil", setUpgradePartition(set, i),
                    Looked(Looked(log, "store", i), "pod", i))

\* the loop over the pod ordinals, from the highest to the lowest
RECURSIVE UpgradeScan(_, _, _, _, _, _, _)
UpgradeScan(i, tf, version, P, S, set, log) ==
    IF i < 0 THEN ScanResult("nil", set, log)
    ELSE IF ~HasStore(tf, i)
    THEN UpgradeScan(i - 1, tf, version, P, S, setUpgradePartition(set, i),
                     Looked(log, "store", i))
    ELSE IF ~P[i].exists
    THEN ScanResult("failed to get pod", set, Looked(Looked(log, "store", i), "pod", i))
    ELSE IF P[i].revision = "none"
    THEN ScanResult("pod has no label", set, Looked(Looked(log, "store", i), "pod", i))
    ELSE IF P[i].revision = tf.UpdateRevision
    THEN IF TargetPodError(tf, version, P, S, i) # "nil"
         THEN ScanResult(TargetPodError(tf, version, P, S, i), set,
                         TargetPodLog(tf, version, P, S, i,
                                      Looked(Looked(log, "store", i), "pod", i)))
         ELSE UpgradeScan(i - 1, tf, version, P, S, set,
                          TargetPodLog(tf, version, P, S, i,
                                       Looked(Looked(log, "store", i), "pod", i)))
    ELSE ScanResult("nil", setUpgradePartition(set, i),
                    Looked(Looked(log, "store", i), "pod", i))

UpgradeResult(e, phase, set, log) == [err |-> e, Phase |-> phase, newSet |-> set, log |-> log]

ManualWarning == <<"warning", "UpdateStrategy has been modified manually">>

\* faulty variant: the held back pass hands the update strategy of the old
\* set on as well
UpgradeHeldBackCopiesStrategy(tf, old, new) ==
    IF old.LastApplied = "none"
    THEN UpgradeResult("get last applied config failed", tf.Phase, new, <<>>)
    ELSE UpgradeResult("nil", tf.Phase,
                       [new EXCEPT !.Template = old.LastApplied,
                                   !.UpdateStrategy = old.UpdateStrategy], <<>>)

\* the pass while PD is upgrading or TiFlash is scaling
UpgradeHeldBack(tf, old, new) ==
    IF old.LastApplied = "none"
    THEN UpgradeResult("get last applied config failed", tf.Phase, new, <<>>)
    ELSE UpgradeResult("nil", tf.Phase, [new EXCEPT !.Template = old.LastApplied], <<>>)

\* faulty variant: an update strategy set by hand is overwritten by the scan
UpgradeSyncedNoBypass(tf, version, P, S, old, new) ==
    IF ~templateEqual(new, old) THEN UpgradeResult("nil", UpgradePhase, new, <<>>)
    ELSE IF tf.UpdateRevision = tf.CurrentRevision
    THEN UpgradeResult("nil", UpgradePhase, new, <<>>)
    ELSE LET r == UpgradeScan(old.Replicas - 1, tf, version, P, S,
                              setUpgradePartition(new, old.UpdateStrategy.Partition),
                              <<>>)
         IN  UpgradeResult(r.err, UpgradePhase, r.newSet, r.log)

\* faulty variant: the scan starts from the partition the new set came with
UpgradeSyncedKeepsNewPartition(tf, version, P, S, old, new) ==
    IF ~templateEqual(new, old) THEN UpgradeResult("nil", UpgradePhase, new, <<>>)
    ELSE IF tf.UpdateRevision = tf.CurrentRevision
    THEN UpgradeResult("nil", UpgradePhase, new, <<>>)
    ELSE IF old.UpdateStrategy.Type = "OnDelete" \/ ~old.UpdateStrategy.HasRollingUpdate
    THEN UpgradeResult("nil", UpgradePhase,
                       [new EXCEPT !.UpdateStrategy = old.UpdateStrategy],
                       <<ManualWarning>>)
    ELSE LET r == UpgradeScan(old.Replicas - 1, tf, version, P, S, new, <<>>)
         IN  UpgradeResult(r.err, UpgradePhase, r.newSet, r.log)

\* faulty variant: the phase is set only when the scan is entered
UpgradeSyncedLatePhase(tf, version, P, S, old, new) ==
    IF ~templateEqual(new, old) THEN UpgradeResult("nil", tf.Phase, new, <<>>)
    ELSE IF tf.UpdateRevision = tf.CurrentRevision
    THEN UpgradeResult("nil", tf.Phase, new, <<>>)
    ELSE IF old.UpdateStrategy.Type = "OnDelete" \/ ~old.UpdateStrategy.HasRollingUpdate
    THEN UpgradeResult("nil", tf.Phase,
                       [new EXCEPT !.UpdateStrategy = old.UpdateStrategy],
                       <<ManualWarning>>)
    ELSE LET r == UpgradeScan(old.Replicas - 1, tf, version, P, S,
                              setUpgradePartition(new, old.UpdateStrategy.Partition),
                              <<>>)
         IN  UpgradeResult(r.err, UpgradePhase, r.newSet, r.log)

\* the pass from the template comparison on
UpgradeSynced(tf, version, P, S, old, new) ==
    IF ~templateEqual(new, old) THEN UpgradeResult("nil", UpgradePhase, new, <<>>)
    ELSE IF tf.UpdateRevision = tf.CurrentRevision
    THEN UpgradeResult("nil", UpgradePhase, new, <<>>)
    ELSE IF old.UpdateStrategy.Type = "OnDelete" \/ ~old.UpdateStrategy.HasRollingUpdate
    THEN UpgradeResult("nil", UpgradePhase,
                       [new EXCEPT !.UpdateStrategy = old.UpdateStrategy],
                       <<ManualWarning>>)
    ELSE LET r == UpgradeScan(old.Replicas - 1, tf, version, P, S,
                              setUpgradePartition(new, old.UpdateStrategy.Partition),
                              <<>>)
         IN  UpgradeResult(r.err, UpgradePhase, r.newSet, r.log)

\* faulty variant: a status that is not synced does not stop the pass
UpgradeIgnoresSync(pdPhase, tf, version, P, S, old, new) ==
    IF pdPhase = UpgradePhase \/ TiFlashScaling(tf) THEN UpgradeHeldBack(tf, old, new)
    ELSE UpgradeSynced(tf, version, P, S, old, new)

Upgrade(pdPhase, tf, version, P, S, old, new) ==
    IF pdPhase = UpgradePhase \/ TiFlashScaling(tf) THEN UpgradeHeldBack(tf, old, new)
    ELSE IF ~tf.Synced
    THEN UpgradeResult("TiFlash status is not synced", tf.Phase, new, <<>>)
    ELSE UpgradeSynced(tf, version, P, S, old, new)

UpgradePass ==
    LET r == Upgrade(PDPhase, TiFlash, TiFlashVersion, tiflashPods, StoreStatus,
                     oldSet, newSet)
    IN  /\ TiFlash' = [TiFlash EXCEPT !.Phase = r.Phase]
        /\ newSet' = r.newSet
        /\ upgradeErr' = r.err
        /\ upgradeLog' = r.log
        /\ UNCHANGED <<PDPhase, TiFlashVersion, tiflashPods, StoreStatus, oldSet>>
        /\ UNCHANGED <<SpecReplicas, failoverVars, updateVars>>

\* a storage group at rest: every pod on the one revision, nothing to roll out
\* ---------------------------------------------------------------- UpdateMetaInfo, UpdateConfigMap
\* retry.DefaultBackoff: the attempts RetryOnConflict makes at most
RetrySteps == 4

\* an object of the API server: its resource version, the part the update
\* sets (labels and annotations of a volume, data of a config map) and the rest
Object(v, m, r) == [version |-> v, meta |-> m, rest |-> r]

Meta(managed, foreign) == [managed |-> managed, foreign |-> foreign]

\* the labels and annotations as UpdateMetaInfo sets them on the volume it was
\* given: the managed keys get their values, the other keys stay
SetLabels(pv) == Meta("want", pv.meta.foreign)

\* the volume already carries the managed labels and the annotation
LabelsSynced(pv) == pv.meta.managed = "want"

\* the API server's answer to an Update of the object
UpdateOutcome(fault, obj, server) ==
    IF fault THEN "other"
    ELSE IF obj.version # server.version THEN "conflict"
    ELSE "nil"

\* the object as the server stores it after the Update went through
Stored(obj) == Object(obj.version + 1, obj.meta, obj.rest)

\* where the loop reads the object again: the lister of the volumes, the API
\* server for a config map
RereadSource(kind, lister, server) == IF kind = "pv" THEN lister ELSE server

\* faulty variant: the object read again is kept as read
RereadAsRead(kind, obj, want, lister, server, getFails) ==
    IF getFails THEN obj ELSE RereadSource(kind, lister, server)

\* after a failed Update: a copy of the object read again, with the labels and
\* annotations (the data) of the first attempt put in place of its own; when
\* the read fails the object is kept
Reread(kind, obj, want, lister, server, getFails) ==
    IF getFails THEN obj
    ELSE [RereadSource(kind, lister, server) EXCEPT !.meta = want]

\* RetryOnConflict: goes on after a conflict while attempts are left
RetryGoesOn(outcome, n) == outcome = "conflict" /\ n < RetrySteps

\* UpdateMetaInfo up to the loop, UpdateConfigMap up to the loop: the caller
\* hands over an object it read before. A volume without claim reference, or
\* whose claim the lister does not have, or whose labels are synced already,
\* is returned as it is; a failed read of the claim is returned as the error.
BeginUpdate ==
    /\ updateState # "running"
    /\ kubeObject.version < MaxVersion
    /\ \E kind \in {"pv", "configmap"}, pre \in {"ok", "no claim ref", "pvc not found", "pvc get failed"} :
          /\ kind = "configmap" => pre = "ok"
          /\ updateKind' = kind
          /\ attempts' = 0
          /\ IF kind = "pv" /\ (pre # "ok" \/ LabelsSynced(listerObject))
             THEN /\ updateState' = "returned"
                  /\ updateErr' = IF pre = "pvc get failed" THEN "other" ELSE "nil"
                  /\ held' = listerObject
                  /\ wanted' = listerObject.meta
                  /\ updated' = <<listerObject>>
             ELSE /\ updateState' = "running"
                  /\ updateErr' = "nil"
                  /\ wanted' = IF kind = "pv" THEN SetLabels(listerObject)
                               ELSE Meta("want", "none")
                  /\ held' = [listerObject EXCEPT !.meta = wanted']
                  /\ updated' = <<>>
    /\ UNCHANGED <<kubeObject, listerObject>>
    /\ UNCHANGED <<SpecReplicas, failoverVars, upgradeVars>>

\* one run of the function RetryOnConflict calls: the Update, and after a
\* failed one the read of the object; then RetryOnConflict's decision
UpdateAttempt ==
    /\ updateState = "running"
    /\ \E fault \in BOOLEAN, getFails \in BOOLEAN :
          LET outcome == UpdateOutcome(fault, held, kubeObject)
          IN  /\ attempts' = attempts + 1
              /\ updateErr' = outcome
              /\ IF outcome = "nil"
                 THEN /\ kubeObject' = Stored(held)
                      /\ updated' = <<Stored(held)>>
                      /\ held' = held
                 ELSE /\ kubeObject' = kubeObject
                      /\ updated' = <<>>
                      /\ held' = Reread(updateKind, held, wanted, listerObject, kubeObject,
                                        getFails)
              /\ updateState' = IF RetryGoesOn(outcome, attempts + 1) THEN "running"
                                ELSE "returned"
    /\ UNCHANGED <<listerObject, updateKind, wanted>>
    /\ UNCHANGED <<SpecReplicas, failoverVars, upgradeVars>>

\* a write of another client: to the rest of the object, to a label of its
\* own, or to the managed labels
ExternalWrite ==
    /\ kubeObject.version < MaxVersion
    /\ \E what \in {"rest", "label", "managed"} :
          kubeObject' =
             Object(kubeObject.version + 1,
                    IF what = "label" THEN Meta(kubeObject.meta.managed, "theirs")
                    ELSE IF what = "managed" THEN Meta("stale", kubeObject.meta.foreign)
                    ELSE kubeObject.meta,
                    IF what = "rest" THEN kubeObject.version + 1 ELSE kubeObject.rest)
    /\ UNCHANGED <<listerObject, updateKind, held, wanted, attempts, updateState,
                   updateErr, updated>>
    /\ UNCHANGED <<SpecReplicas, failoverVars, upgradeVars>>

\* the informer brings the lister up to the server
ListerSync ==
    /\ listerObject # kubeObject
    /\ listerObject' = kubeObject
    /\ UNCHANGED <<kubeObject, updateKind, held, wanted, attempts, updateState,
                   updateErr, updated>>
    /\ UNCHANGED <<SpecReplicas, failoverVars, upgradeVars>>

IdleUpdate ==
    /\ kubeObject = Object(0, Meta("stale", "none"), 0)
    /\ listerObject = kubeObject
    /\ updateKind = "pv"
    /\ held = kubeObject
    /\ wanted = kubeObject.meta
    /\ attempts = 0
    /\ updateState = "idle"
    /\ updateErr = "nil"
    /\ updated = <<>>

IdleUpgrade ==
    /\ PDPhase = NormalPhase
    /\ TiFlash = [Phase |-> NormalPhase, Synced |-> TRUE,
                  CurrentRevision |-> "rev-old", UpdateRevision |-> "rev-old",
                  Stores |-> {[PodName |-> i, State |-> TiKVStateUp] : i \in StoreOrdinals}]
    /\ TiFlashVersion = TagV512
    /\ tiflashPods = [i \in StoreOrdinals |->
                         [exists |-> TRUE, revision |-> "rev-old", ready |-> TRUE]]
    /\ StoreStatus = [i \in StoreOrdinals |-> Running]
    /\ oldSet = [Replicas |-> MaxOrdinal + 1, LastApplied |-> "t1",
                 UpdateStrategy |-> RollingUpdateAt(MaxOrdinal + 1)]
    /\ newSet = [Template |-> "t1", UpdateStrategy |-> RollingUpdateAt(MaxOrdinal + 1)]
    /\ upgradeErr = "nil"
    /\ upgradeLog = <<>>

\* ---------------------------------------------------------------- specifications
MemberMaps ==
    {m \in [Ordinals -> [ID : {MemberIDText(i) : i \in Ordinals},
                         Health : BOOLEAN,
                         LastTransitionTime : {0}]] :
        \A i \in Ordinals : m[i].ID = MemberIDText(i)}

PeerMaps ==
    {q \in UNION {[D -> [ID : {MemberIDText(p) : p \in D}, Health : BOOLEAN]] :
                    D \in {{}, PeerNames}} :
        \A p \in DOMAIN q : q[p].ID = MemberIDText(p)}

InitCommon ==
    /\ Synced = TRUE
    /\ pods = [i \in Ordinals |-> "present"]
    /\ pvcs = [x \in Claims |-> [phase |-> "present", uid |-> 0]]
    /\ now = 1
    /\ err = "nil"
    /\ events = <<>>
    /\ calls = <<>>
    /\ IdleUpgrade
    /\ IdleUpdate

\* The tracker under a changing cluster status: health transitions, peers, time.
Init ==
    /\ Members \in MemberMaps
    /\ PeerMembers \in PeerMaps
    /\ FailureMembers = EmptyMap
    /\ MaxFailoverCount \in {0, MaxCap}
    /\ SpecReplicas = Replicas
    /\ InitCommon

Next ==
    \/ FailoverClean
    \/ Recover
    \/ Tick
    \/ \E i \in Ordinals : SyncMember(i)
    \/ \E p \in PeerNames : SyncPeer(p)
    \/ SyncStatus

Spec == Init /\ [][Next]_vars

\* The reaper under failing calls and a changing pod and claim directory: pd-1
\* has just turned unhealthy, or is a failure member already.
WrongID == <<"w", "r", "o", "n", "g">>

oneFailureMember(id) ==
    Put(EmptyMap, 1, [PodName |-> 1, MemberID |-> id,
                      PVCUIDSet |-> {<<1, k, 0>> : k \in 1 .. PVCsPerPod},
                      MemberDeleted |-> FALSE])

InitReap ==
    /\ \E h \in BOOLEAN :
          Members = [i \in Ordinals |->
                        [ID |-> MemberIDText(i),
                         Health |-> IF i = 1 THEN FALSE ELSE IF i = 2 THEN h ELSE TRUE,
                         LastTransitionTime |-> IF i = 1 THEN 1 ELSE 0]]
    /\ PeerMembers = EmptyMap
    /\ FailureMembers \in {EmptyMap, oneFailureMember(MemberIDText(1)), oneFailureMember(WrongID)}
    /\ MaxFailoverCount \in {0, MaxCap}
    /\ SpecReplicas = Replicas
    /\ InitCommon

NextReap ==
    \/ Failover
    \/ Recover
    \/ Tick
    \/ \E i \in Ordinals : EvictPod(i)
    \/ \E x \in Claims : TerminatePVC(x)
    \/ \E x \in Claims : RecreatePVC(x)

SpecReap == InitReap /\ [][NextReap]_vars

\* The teardown slice when passes keep being scheduled and a pass in which
\* every external call succeeds is not put off for ever. A pass stops at its
\* first failing call, so at most one call of a pass is made to fail.
SucceedingInput ==
    [delMemberFailed |-> FALSE, delPodFailed |-> FALSE, failPVC |-> {},
     order |-> <<1, 2>>, start |-> 0]

SingleFaultInputs ==
    {SucceedingInput,
     [SucceedingInput EXCEPT !.delMemberFailed = TRUE],
     [SucceedingInput EXCEPT !.delPodFailed = TRUE]}
    \cup {[SucceedingInput EXCEPT !.failPVC = {k}] : k \in 1 .. PVCsPerPod}

FailoverOneFault == FailoverWith(SingleFaultInputs)

FailoverSucceeds == NotDeleted(FailureMembers) # {} /\ FailoverWith({SucceedingInput})

NextReapFair ==
    \/ FailoverOneFault
    \/ Recover
    \/ \E i \in Ordinals : EvictPod(i)
    \/ \E x \in Claims : TerminatePVC(x)

SpecReapFair == InitReap /\ [][NextReapFair]_vars /\ WF_vars(FailoverSucceeds)

\* Recovery after a failover: any non-empty failure mapping, whose entries are
\* at any stage of the teardown, against any desired replica count.
MaxSpecReplicas == 4

FailureMember(i, deleted) ==
    [PodName |-> i, MemberID |-> MemberIDText(i),
     PVCUIDSet |-> {<<i, k, 0>> : k \in 1 .. PVCsPerPod},
     MemberDeleted |-> deleted]

FailureMaps ==
    UNION {{[i \in D |-> FailureMember(i, d[i])] : d \in [D -> BOOLEAN]} :
              D \in (SUBSET Ordinals) \ {{}}}

InitRecover ==
    /\ FailureMembers \in FailureMaps
    /\ Members = [i \in Ordinals |->
                     [ID |-> MemberIDText(i), Health |-> i \notin DOMAIN FailureMembers,
                      LastTransitionTime |-> 0]]
    /\ PeerMembers = EmptyMap
    /\ MaxFailoverCount = Replicas
    /\ SpecReplicas \in 0 .. MaxSpecReplicas
    /\ InitCommon

NextRecover == Recover

SpecRecover == InitRecover /\ [][NextRecover]_vars

\* One Upgrade pass over a storage group. What may be wrong with an ordinal:
Defects == {"store absent", "pod missing", "no label", "not ready", "store down",
            "status error", "status idle"}

Scenes ==
    {sc \in [StoreOrdinals -> [rev : {"rev-old", "rev-new"}, defect : Defects \cup {"ok"}]] :
        Cardinality({i \in StoreOrdinals : sc[i].defect # "ok"}) <= MaxDefects}

PodsOf(sc) ==
    [i \in StoreOrdinals |->
        [exists |-> sc[i].defect # "pod missing",
         revision |-> IF sc[i].defect = "no label" THEN "none" ELSE sc[i].rev,
         ready |-> sc[i].defect # "not ready"]]

StoresOf(sc) ==
    {[PodName |-> i, State |-> IF sc[i].defect = "store down" THEN "Down" ELSE TiKVStateUp] :
        i \in {k \in StoreOrdinals : sc[k].defect # "store absent"}}

StatusOf(sc) ==
    [i \in StoreOrdinals |->
        IF sc[i].defect = "status error" THEN "error"
        ELSE IF sc[i].defect = "status idle" THEN "Idle"
        ELSE Running]

\* the highest ordinal still on the old revision, nothing wrong
PlainScene ==
    [i \in StoreOrdinals |->
        [rev |-> IF i = MaxOrdinal THEN "rev-old" ELSE "rev-new", defect |-> "ok"]]

Strategies ==
    {[Type |-> t, HasRollingUpdate |-> h, Partition |-> IF h THEN MaxOrdinal ELSE 0] :
        t \in {"RollingUpdate", "OnDelete"}, h \in BOOLEAN}

IdleFailover ==
    /\ Members = [i \in Ordinals |->
                     [ID |-> MemberIDText(i), Health |-> TRUE, LastTransitionTime |-> 0]]
    /\ PeerMembers = EmptyMap
    /\ FailureMembers = EmptyMap
    /\ MaxFailoverCount = Replicas
    /\ SpecReplicas = Replicas
    /\ Synced = TRUE
    /\ pods = [i \in Ordinals |-> "present"]
    /\ pvcs = [x \in Claims |-> [phase |-> "present", uid |-> 0]]
    /\ now = 1
    /\ err = "nil"
    /\ events = <<>>
    /\ calls = <<>>

\* the scenes with one thing wrong at most
SingleDefectScenes ==
    {sc \in Scenes : Cardinality({i \in StoreOrdinals : sc[i].defect # "ok"}) <= 1}

\* the pass reaches the ordinal scan: every health of the pods and stores and
\* every partition of the old set, under an image tag for which the store
\* status is asked and under one for which it is not; every image tag over
\* the scenes with one thing wrong at most
InitScan ==
    \E sc \in Scenes, p \in 0 .. (MaxOrdinal + 1) :
        /\ PDPhase = NormalPhase
        /\ TiFlash = [Phase |-> NormalPhase, Synced |-> TRUE,
                      CurrentRevision |-> "rev-old", UpdateRevision |-> "rev-new",
                      Stores |-> StoresOf(sc)]
        /\ \/ TiFlashVersion \in {TagLastest, TagLatest}
           \/ TiFlashVersion \in Tags /\ sc \in SingleDefectScenes /\ p = MaxOrdinal + 1
        /\ tiflashPods = PodsOf(sc)
        /\ StoreStatus = StatusOf(sc)
        /\ oldSet = [Replicas |-> MaxOrdinal + 1, LastApplied |-> "t1",
                     UpdateStrategy |-> RollingUpdateAt(p)]
        /\ newSet = [Template |-> "t1", UpdateStrategy |-> RollingUpdateAt(MaxOrdinal + 1)]

\* the pass may end before the scan: every phase, sync state, template,
\* revision and update strategy over one plain storage group
InitGate ==
    /\ PDPhase \in {NormalPhase, UpgradePhase}
    /\ TiFlash \in [Phase : {NormalPhase, UpgradePhase, ScalePhase}, Synced : BOOLEAN,
                     CurrentRevision : {"rev-old", "rev-new"}, UpdateRevision : {"rev-new"},
                     Stores : {StoresOf(PlainScene)}]
    /\ TiFlashVersion = TagV512
    /\ tiflashPods = PodsOf(PlainScene)
    /\ StoreStatus = StatusOf(PlainScene)
    /\ oldSet \in [Replicas : {MaxOrdinal + 1}, LastApplied : {"none", "t1", "t2"},
                    UpdateStrategy : Strategies]
    /\ newSet = [Template |-> "t1", UpdateStrategy |-> RollingUpdateAt(MaxOrdinal + 1)]

InitUpgrade ==
    /\ InitScan \/ InitGate
    /\ upgradeErr = "no pass yet"
    /\ upgradeLog = <<>>
    /\ IdleFailover
    /\ IdleUpdate

NextUpgrade == UpgradePass

SpecUpgrade == InitUpgrade /\ [][NextUpgrade]_vars

\* ---------------------------------------------------------------- the update loops
InitUpdate ==
    /\ IdleUpdate
    /\ IdleUpgrade
    /\ IdleFailover

NextUpdate ==
    \/ BeginUpdate
    \/ UpdateAttempt
    \/ ExternalWrite
    \/ ListerSync

SpecUpdate == InitUpdate /\ [][NextUpdate]_vars


\* ================================================================ properties
\* The voting set and its healthy part, counted one voter per id.
Voting == {Members[i].ID : i \in Ordinals} \cup {PeerMembers[p].ID : p \in DOMAIN PeerMembers}

HealthyID(id) ==
    \/ \E i \in Ordinals : Members[i].ID = id /\ Members[i].Health
    \/ \E p \in DOMAIN PeerMembers : PeerMembers[p].ID = id /\ PeerMembers[p].Health

HealthyOthers(id) == Cardinality({v \in Voting \ {id} : HealthyID(v)})

HealthyAll == Cardinality({v \in Voting : HealthyID(v)})

\* a step of the controller's pass: a step that is none of the other actions
OtherStep ==
    \/ Recover
    \/ Tick
    \/ SyncStatus
    \/ \E i \in Ordinals : SyncMember(i) \/ EvictPod(i)
    \/ \E p \in PeerNames : SyncPeer(p)
    \/ \E x \in Claims : TerminatePVC(x) \/ RecreatePVC(x)
    \/ UpgradePass

PassStep == ~OtherStep

Added(i) == i \notin DOMAIN FailureMembers /\ i \in DOMAIN FailureMembers'

Flipped(i) ==
    /\ i \in DOMAIN FailureMembers /\ ~FailureMembers[i].MemberDeleted
    /\ i \in DOMAIN FailureMembers' /\ FailureMembers'[i].MemberDeleted

NoTeardown ==
    /\ FailureMembers' = FailureMembers
    /\ pods' = pods
    /\ pvcs' = pvcs
    /\ calls' = <<>>

OnlyUnhealthyEvents(ev) == \A k \in 1 .. Len(ev) : ev[k].reason = "PDMemberUnhealthy"

\* the member would be marked by a pass as far as deadline and bookkeeping go
DueForMarking(i) ==
    /\ ~Members[i].Health
    /\ Members[i].LastTransitionTime # 0
    /\ now - Members[i].LastTransitionTime > PDFailoverPeriod
    /\ i \notin DOMAIN FailureMembers

\* the pass gets as far as the marking loop with room under the cap
MarkingOpen ==
    /\ Synced
    /\ \A j \in DOMAIN FailureMembers : FailureMembers[j].MemberDeleted
    /\ Cardinality(DOMAIN FailureMembers) < MaxFailoverCount

C1_NoMarkWithoutQuorum_Step ==
         \A X \in Ordinals :
            (~Members[X].Health /\ 2 * HealthyOthers(Members[X].ID) <= Cardinality(Voting))
            => /\ ~Added(X)
               /\ ~HealthyID(Members[X].ID) => (NoTeardown /\ OnlyUnhealthyEvents(events'))

Deregistered(cs, i, k) ==
    \E j \in 1 .. (k - 1) : cs[j].op = "DeleteMemberByID" /\ cs[j].pod = i /\ cs[j].ok

C2_DeregisterFirst_Step ==
         /\ \A k \in 1 .. Len(calls') :
               calls'[k].op \in {"DeletePod", "DeletePVC"}
               => Deregistered(calls', calls'[k].pod, k)
         /\ \A i \in Ordinals :
               ~Deregistered(calls', i, Len(calls') + 1)
               => /\ pods'[i] = pods[i]
                  /\ \A x \in Claims : x[1] = i => pvcs'[x] = pvcs[x]

\* C2: in every pass, a pod delete or a claim delete for a failure member is
\* issued only after a successful deregistration of that member in the same
\* pass; without one, the pod and the claims of the member are left alone.
C2_DeregisterFirst == [][PassStep => C2_DeregisterFirst_Step]_vars

C2_Witness ==
    /\ err = "failed to delete member"
    /\ Len(calls) = 1
    /\ pods[1] = "present"
    /\ 1 \in DOMAIN FailureMembers /\ ~FailureMembers[1].MemberDeleted

CallError(c) ==
    IF c.op = "DeleteMemberByID" THEN "failed to delete member"
    ELSE IF c.op = "DeletePod" THEN "delete pod: API server failed"
    ELSE "delete pvc: API server failed"

C3_DeletedOnlyAfterSuccess_Step ==
         /\ \A i \in Ordinals :
               Flipped(i)
               => /\ err' = "nil"
                  /\ Deregistered(calls', i, Len(calls') + 1)
                  /\ \A k \in 1 .. Len(calls') : calls'[k].ok
         /\ \A k \in 1 .. Len(calls') :
               ~calls'[k].ok
               => /\ err' = CallError(calls'[k])
                  /\ k = Len(calls')
                  /\ \A i \in DOMAIN FailureMembers :
                        FailureMembers'[i].MemberDeleted = FailureMembers[i].MemberDeleted

\* C3: the deleted flag of a failure member turns true only in a pass that
\* returns no error and in which the deregistration succeeded and no call
\* failed; a pass in which a call fails returns that call's error and leaves
\* every deleted flag as it was.
C3_DeletedOnlyAfterSuccess == [][PassStep => C3_DeletedOnlyAfterSuccess_Step]_vars

C3_Witness ==
    /\ err = "delete pod: API server failed"
    /\ Len(calls) = 2
    /\ 1 \in DOMAIN FailureMembers /\ ~FailureMembers[1].MemberDeleted

\* C4 as stated: whenever the deleted flag of a failure member is true, its
\* pod and every claim of its recorded set no longer exist.
ClaimExists(uid) == pvcs[<<uid[1], uid[2]>>].phase # "absent" /\ pvcs[<<uid[1], uid[2]>>].uid = uid[3]

ClaimLive(uid) == pvcs[<<uid[1], uid[2]>>].phase = "present" /\ pvcs[<<uid[1], uid[2]>>].uid = uid[3]

C4_DeletedMeansGone ==
    \A i \in DOMAIN FailureMembers :
        FailureMembers[i].MemberDeleted
        => /\ pods[i] = "absent"
           /\ \A uid \in FailureMembers[i].PVCUIDSet : ~ClaimExists(uid)

\* C4 amended: whenever the deleted flag of a failure member is true, its pod
\* and every claim of its recorded set either no longer exists or is marked
\* for deletion already.
C4_DeletedMeansGoneOrTerminating ==
    \A i \in DOMAIN FailureMembers :
        FailureMembers[i].MemberDeleted
        => /\ pods[i] # "present"
           /\ \A uid \in FailureMembers[i].PVCUIDSet : ~ClaimLive(uid)

C4_Witness ==
    /\ 1 \in DOMAIN FailureMembers /\ FailureMembers[1].MemberDeleted
    /\ pods[1] = "terminating"
    /\ err = "nil"
    /\ \E k \in 1 .. Len(calls) : calls[k].op = "DeletePVC"

HasCall(cs, op, ok) == \E k \in 1 .. Len(cs) : cs[k].op = op /\ cs[k].ok = ok

C5_RetryAfterClaimFailure_Step ==
         \A i \in DOMAIN FailureMembers :
            ~FailureMembers[i].MemberDeleted
            => /\ (HasCall(calls', "DeletePod", TRUE) /\ HasCall(calls', "DeletePVC", FALSE))
                  => (~FailureMembers'[i].MemberDeleted /\ pods'[i] = "absent")
               /\ pods[i] = "absent"
                  => /\ \A k \in 1 .. Len(calls') : calls'[k].op # "DeletePod"
                     /\ (err' = "nil" /\ Len(calls') > 0)
                        => /\ FailureMembers'[i].MemberDeleted
                           /\ \A x \in Claims :
                                 (x[1] = i /\ <<x[1], x[2], pvcs[x].uid>> \in FailureMembers[i].PVCUIDSet)
                                 => pvcs'[x].phase # "present"

\* C5: a pass in which the pod delete succeeds and a claim delete fails leaves
\* deleted false; a pass that finds the pod of a not yet deleted failure member
\* absent issues no pod delete, and when it returns no error it has set
\* deleted and no claim of the recorded set is left live.
C5_RetryAfterClaimFailure == [][PassStep => C5_RetryAfterClaimFailure_Step]_vars

C5_Witness ==
    /\ 1 \in DOMAIN FailureMembers /\ FailureMembers[1].MemberDeleted
    /\ pods[1] = "absent"
    /\ err = "nil"
    /\ HasCall(calls, "DeletePVC", TRUE)
    /\ ~HasCall(calls, "DeletePod", TRUE)

C6_NotBeforeDeadline_Step ==
         \A i \in Ordinals :
            (Members[i].LastTransitionTime # 0
             /\ now - Members[i].LastTransitionTime < PDFailoverPeriod)
            => ~Added(i)

\* C6: a member whose unhealthy duration, now minus its last health
\* transition, is below the failover period is not added to FailureMembers by
\* a pass.
C6_NotBeforeDeadline == [][PassStep => C6_NotBeforeDeadline_Step]_vars

C6_Witness ==
    /\ MarkingOpen
    /\ err = "nil"
    /\ Len(events) = 1
    /\ \E i \in Ordinals :
          /\ ~Members[i].Health
          /\ Members[i].LastTransitionTime # 0
          /\ now - Members[i].LastTransitionTime < PDFailoverPeriod
          /\ 2 * HealthyOthers(Members[i].ID) > Cardinality(Voting)

C7_ZeroTimeIsJustObserved_Step ==
         \A i \in Ordinals :
            (~Members[i].Health /\ Members[i].LastTransitionTime = 0)
            => /\ ~Added(i)
               /\ \A k \in 1 .. Len(events') :
                     events'[k].pod = i => events'[k].reason = "PDMemberUnhealthy"
               /\ Synced => Cardinality({k \in 1 .. Len(events') :
                                            events'[k].pod = i /\ ~events'[k].peer}) = 1

\* C7: an unhealthy member whose last transition time is the zero value is not
\* added to FailureMembers by a pass, whatever the quorum and the cap, and the
\* pass records nothing but an unhealthy event for it.
C7_ZeroTimeIsJustObserved == [][PassStep => C7_ZeroTimeIsJustObserved_Step]_vars

C7_Witness ==
    /\ MarkingOpen
    /\ err = "nil"
    /\ Len(events) = 1
    /\ now - 0 > PDFailoverPeriod
    /\ \E i \in Ordinals :
          /\ ~Members[i].Health
          /\ Members[i].LastTransitionTime = 0
          /\ 2 * HealthyOthers(Members[i].ID) > Cardinality(Voting)

Attached(i) ==
    IF pods[i] = "absent" THEN {}
    ELSE {<<x[1], x[2], pvcs[x].uid>> : x \in {y \in Claims : y[1] = i /\ pvcs[y].phase # "absent"}}

C8_MarkRecordsAttachedClaims_Step ==
         /\ \A i \in Ordinals :
               Added(i)
               => /\ DueForMarking(i)
                  /\ FailureMembers'[i] = [PodName |-> i, MemberID |-> Members[i].ID,
                                           PVCUIDSet |-> Attached(i), MemberDeleted |-> FALSE]
         /\ (/\ MarkingOpen
             /\ \E i \in Ordinals :
                   /\ DueForMarking(i)
                   /\ 2 * HealthyOthers(Members[i].ID) > Cardinality(Voting)
             /\ \A i \in Ordinals : DueForMarking(i) => Attached(i) # {})
            => \E i \in Ordinals : Added(i)

C9_QuorumGuardMajority_Step ==
         /\ \A i \in Ordinals :
               Added(i) => 2 * HealthyOthers(Members[i].ID) > Cardinality(Voting)
         /\ (/\ MarkingOpen
             /\ \A i \in Ordinals : pods[i] # "absent" => Attached(i) # {}
             /\ \E i \in Ordinals :
                   /\ DueForMarking(i)
                   /\ 2 * HealthyOthers(Members[i].ID) > Cardinality(Voting))
            => \E i \in Ordinals : Added(i)

\* C9: a pass marks a candidate only if twice the number of healthy voters
\* other than the candidate exceeds the number of voters, and it does mark a
\* member when that holds for a member due for marking; with the healthy
\* others at exactly half of the voters the candidate is not marked.
C9_QuorumGuardMajority == [][PassStep => C9_QuorumGuardMajority_Step]_vars

C9_Witness ==
    /\ MarkingOpen
    /\ err = "nil"
    /\ events # <<>>
    /\ 2 * HealthyAll > Cardinality(Voting)
    /\ \E i \in Ordinals :
          /\ DueForMarking(i)
          /\ 2 * HealthyOthers(Members[i].ID) = Cardinality(Voting)

C10_VotersDedupById_Step ==
         (2 * HealthyAll <= Cardinality(Voting))
         => (NoTeardown /\ (Synced => err' = "pd cluster is not health"))

\* C10: the voters are Members united with PeerMembers, one voter per id: a
\* pass marks or tears down only when twice the number of ids with a healthy
\* entry exceeds the number of ids, a voter in both mappings counting once.
C10_VotersDedupById == [][PassStep => C10_VotersDedupById_Step]_vars

C10_Witness ==
    /\ Synced
    /\ err = "pd cluster is not health"
    /\ 0 \in DOMAIN PeerMembers
    /\ Members[0].Health /\ PeerMembers[0].Health
    /\ Cardinality(Voting) < Cardinality(DOMAIN Members) + Cardinality(DOMAIN PeerMembers)
    /\ 2 * (Cardinality({i \in Ordinals : Members[i].Health})
            + Cardinality({p \in DOMAIN PeerMembers : PeerMembers[p].Health}))
         > Cardinality(DOMAIN Members) + Cardinality(DOMAIN PeerMembers)

\* the cluster is left without a majority by a member healthy in no view
RejectedForQuorum(X) ==
    /\ Synced
    /\ ~HealthyID(Members[X].ID)
    /\ 2 * HealthyOthers(Members[X].ID) <= Cardinality(Voting)

C11_RejectionIsAnError_Step ==
    \A X \in Ordinals :
        RejectedForQuorum(X)
        => /\ err' = "pd cluster is not health"
           /\ FailureMembers' = FailureMembers

C11_RejectionReturnsNil_Step ==
    \A X \in Ordinals : RejectedForQuorum(X) => err' = "nil"

\* C11 as stated: when the quorum check rejects marking a member for too few
\* healthy voters, the Failover pass returns no error.
C11_RejectionReturnsNil == [][PassStep => C11_RejectionReturnsNil_Step]_vars

\* C11 amended: when the quorum check rejects marking a member for too few
\* healthy voters, the Failover pass returns the error "pd cluster is not
\* health" and leaves FailureMembers as it was, for a later pass to decide anew.
C11_RejectionIsAnError == [][PassStep => C11_RejectionIsAnError_Step]_vars

C11_Witness ==
    /\ Synced
    /\ err = "pd cluster is not health"
    /\ PeerMembers = EmptyMap
    /\ ~Members[0].Health /\ ~Members[1].Health /\ Members[2].Health
    /\ FailureMembers = EmptyMap
    /\ MaxFailoverCount > 0
    /\ Len(events) = 2

\* C12: starting from no failure member, the number of failure members never
\* exceeds maxFailoverCount; with maxFailoverCount 0 there is never one.
C12_NeverAboveCap == Cardinality(DOMAIN FailureMembers) <= MaxFailoverCount

C12_Witness ==
    /\ MaxFailoverCount = 0
    /\ Synced
    /\ err = "nil"
    /\ Len(events) = 1
    /\ FailureMembers = EmptyMap
    /\ \E i \in Ordinals :
          /\ DueForMarking(i)
          /\ 2 * HealthyOthers(Members[i].ID) > Cardinality(Voting)

\* the cap is reached and no failure member awaits its teardown
AtCap ==
    /\ Synced
    /\ 2 * HealthyAll > Cardinality(Voting)
    /\ \A j \in DOMAIN FailureMembers : FailureMembers[j].MemberDeleted
    /\ Cardinality(DOMAIN FailureMembers) >= MaxFailoverCount

C13_CapReachedIsSilent_Step ==
    AtCap
    => /\ err' = "nil"
       /\ NoTeardown
       /\ OnlyUnhealthyEvents(events')
       /\ Len(events') = Cardinality({i \in Ordinals : ~Members[i].Health})
                         + Cardinality({p \in DOMAIN PeerMembers : ~PeerMembers[p].Health})

DueWithoutClaims ==
    /\ MarkingOpen
    /\ 2 * HealthyAll > Cardinality(Voting)
    /\ \E i \in Ordinals :
          /\ DueForMarking(i)
          /\ 2 * HealthyOthers(Members[i].ID) > Cardinality(Voting)
    /\ \A i \in Ordinals :
          DueForMarking(i) => (pods[i] # "absent" /\ Attached(i) = {})

C14_NoClaimsFailsTheMarking_Step ==
    DueWithoutClaims
    => /\ err' = "no pvc found for pod"
       /\ FailureMembers' = FailureMembers

C14_MarkedWithEmptyClaimSet_Step ==
    DueWithoutClaims
    => \E i \in Ordinals :
          /\ Added(i)
          /\ FailureMembers'[i].PVCUIDSet = {}

\* C14 as stated: a member that qualifies to be marked while the claims of its
\* pod cannot be located is added to FailureMembers with an empty claim set.
C14_MarkedWithEmptyClaimSet == [][PassStep => C14_MarkedWithEmptyClaimSet_Step]_vars

\* C14 amended: when a member qualifies to be marked and its pod is found but
\* no claim of the pod is, the pass returns the error "no pvc found for pod"
\* and the member is not added to FailureMembers.
C14_NoClaimsFailsTheMarking == [][PassStep => C14_NoClaimsFailsTheMarking_Step]_vars

C14_Witness ==
    /\ err = "no pvc found for pod"
    /\ FailureMembers = EmptyMap
    /\ DueWithoutClaims
    /\ Len(events) = 1

C15_MarkingErrorKeepsEntry_Step ==
    /\ \A i \in Ordinals :
          Added(i)
          => /\ err' = "marking as failure"
             /\ ~FailureMembers'[i].MemberDeleted
             /\ \A j \in DOMAIN FailureMembers :
                   j \in DOMAIN FailureMembers' /\ FailureMembers'[j] = FailureMembers[j]
    /\ err' = "marking as failure"
       => Cardinality(DOMAIN FailureMembers' \ DOMAIN FailureMembers) = 1

\* C15: the pass that marks a member returns the error "marking ... as
\* failure", and the entry it wrote is in FailureMembers after the pass: a pass
\* adds an entry exactly when it returns that error, one entry at a time.
C15_MarkingErrorKeepsEntry == [][PassStep => C15_MarkingErrorKeepsEntry_Step]_vars

C15_Witness ==
    /\ err = "marking as failure"
    /\ Len(events) = 2
    /\ events[1] = events[2]
    /\ \E i \in DOMAIN FailureMembers :
          /\ ~FailureMembers[i].MemberDeleted
          /\ events[2] = Event("PDMemberUnhealthy", i)

\* text that is a non-negative decimal number
IsDecimal(s) ==
    /\ Len(s) > 0
    /\ \A k \in 1 .. Len(s) : s[k] \in {"0", "1", "2", "3", "4", "5", "6", "7", "8", "9"}

\* the pass gets as far as the teardown, and every failure member awaiting it
\* has a member id that is no number
ReapsUnparsableID ==
    /\ Synced
    /\ 2 * HealthyAll > Cardinality(Voting)
    /\ \E i \in DOMAIN FailureMembers : ~FailureMembers[i].MemberDeleted
    /\ \A i \in DOMAIN FailureMembers :
          ~FailureMembers[i].MemberDeleted => ~IsDecimal(FailureMembers[i].MemberID)

C16_UnparsableIDStopsTheReap_Step ==
    ReapsUnparsableID
    => /\ err' = "invalid syntax"
       /\ NoTeardown
       /\ OnlyUnhealthyEvents(events')

\* C16: when the member id of the failure member to tear down is no
\* non-negative integer, the pass returns the parse error and has issued no
\* deregistration, no pod delete and no claim delete, recorded no deleted event
\* and left the entry, its deleted flag included, as it was.
C16_UnparsableIDStopsTheReap == [][PassStep => C16_UnparsableIDStopsTheReap_Step]_vars

C16_Witness ==
    /\ err = "invalid syntax"
    /\ ReapsUnparsableID
    /\ calls = <<>>
    /\ Len(events) = 1
    /\ pods[1] = "present"

CallsOn(cs, op, i, k) ==
    {n \in 1 .. Len(cs) : cs[n].op = op /\ cs[n].pod = i /\ cs[n].claim = k}

C17_TerminatingObjectsLeftAlone_Step ==
    /\ \A i \in Ordinals :
          pods[i] = "terminating"
          => /\ CallsOn(calls', "DeletePod", i, 0) = {}
             /\ pods'[i] = "terminating"
    /\ \A x \in Claims :
          pvcs[x].phase = "terminating"
          => /\ CallsOn(calls', "DeletePVC", x[1], x[2]) = {}
             /\ pvcs'[x] = pvcs[x]
    /\ \A i \in DOMAIN FailureMembers :
          (/\ ~FailureMembers[i].MemberDeleted
           /\ pods[i] = "terminating"
           /\ \A x \in Claims : x[1] = i => pvcs[x].phase = "terminating"
           /\ Synced
           /\ 2 * HealthyAll > Cardinality(Voting)
           /\ IsDecimal(FailureMembers[i].MemberID)
           /\ HasCall(calls', "DeleteMemberByID", TRUE))
          => /\ err' = "nil"
             /\ FailureMembers'[i].MemberDeleted
             /\ Len(calls') = 1

\* C17: a pass deletes neither a pod already marked for deletion nor a claim
\* already marked for deletion, and leaves them in their directories; the
\* teardown of a failure member whose pod and claims are all terminating
\* succeeds with the deregistration alone and sets deleted.
C17_TerminatingObjectsLeftAlone == [][PassStep => C17_TerminatingObjectsLeftAlone_Step]_vars

C17_Witness ==
    /\ 1 \in DOMAIN FailureMembers /\ FailureMembers[1].MemberDeleted
    /\ pods[1] = "terminating"
    /\ \A x \in Claims : x[1] = 1 => pvcs[x].phase = "terminating"
    /\ err = "nil"
    /\ Len(calls) = 1
    /\ calls[1].op = "DeleteMemberByID"

Recorded(i, x) == <<x[1], x[2], pvcs[x].uid>> \in FailureMembers[i].PVCUIDSet

C18_OnlyRecordedClaimsDeleted_Step ==
    /\ \A i \in DOMAIN FailureMembers :
          FailureMembers[i].PVCUIDSet # {}
          => \A x \in Claims :
                (x[1] = i /\ ~Recorded(i, x))
                => /\ pvcs'[x] = pvcs[x]
                   /\ CallsOn(calls', "DeletePVC", x[1], x[2]) = {}
    /\ \A n \in 1 .. Len(calls') :
          (calls'[n].op = "DeletePVC" /\ ~calls'[n].ok)
          => /\ n = Len(calls')
             /\ pvcs'[<<calls'[n].pod, calls'[n].claim>>] = pvcs[<<calls'[n].pod, calls'[n].claim>>]
    /\ \A x \in Claims :
          pvcs'[x] # pvcs[x]
          => \E n \in CallsOn(calls', "DeletePVC", x[1], x[2]) : calls'[n].ok

\* C18: with a non-empty recorded claim set, a pass deletes no claim whose
\* identity is not in the set, though it is attached to the pod; and a failed
\* claim delete is the last call of its pass: the claims after it are left.
C18_OnlyRecordedClaimsDeleted == [][PassStep => C18_OnlyRecordedClaimsDeleted_Step]_vars

C18_Witness ==
    /\ 1 \in DOMAIN FailureMembers
    /\ FailureMembers[1].MemberDeleted
    /\ FailureMembers[1].PVCUIDSet # {}
    /\ HasCall(calls, "DeletePVC", TRUE)
    /\ \E x \in Claims : x[1] = 1 /\ pvcs[x].phase = "present" /\ ~Recorded(1, x)

C19_DeletedIsMonotonic_Step ==
    \A i \in DOMAIN FailureMembers :
        FailureMembers[i].MemberDeleted
        => \/ i \in DOMAIN FailureMembers' /\ FailureMembers'[i].MemberDeleted
           \/ ~PassStep /\ FailureMembers' = EmptyMap

\* C19: the deleted flag of a failure member, once true, stays true as long as
\* the entry exists: no pass turns it back, and it is lost only in a step that
\* is no pass and clears the whole mapping, which is Recover.
C19_DeletedIsMonotonic == [][C19_DeletedIsMonotonic_Step]_vars

C19_Witness ==
    /\ 1 \in DOMAIN FailureMembers /\ FailureMembers[1].MemberDeleted
    /\ Synced
    /\ err = "nil"
    /\ calls = <<>>
    /\ events # <<>>

C20_EntriesAreKept_Step ==
    \A i \in DOMAIN FailureMembers :
        \/ /\ i \in DOMAIN FailureMembers'
           /\ FailureMembers'[i].PodName = FailureMembers[i].PodName
           /\ FailureMembers'[i].MemberID = FailureMembers[i].MemberID
           /\ FailureMembers'[i].PVCUIDSet = FailureMembers[i].PVCUIDSet
        \/ ~PassStep /\ FailureMembers' = EmptyMap

\* C20: a pass removes no entry of FailureMembers and changes neither the pod
\* name, nor the member id, nor the recorded claim set of an entry: of an
\* existing entry it changes the deleted flag at most. An entry goes away only
\* in a step that is no pass and clears the mapping, which is Recover.
C20_EntriesAreKept == [][C20_EntriesAreKept_Step]_vars

C20_Witness ==
    /\ 1 \in DOMAIN FailureMembers /\ FailureMembers[1].MemberDeleted
    /\ FailureMembers[1].PodName = 1
    /\ FailureMembers[1].MemberID = MemberIDText(1)
    /\ FailureMembers[1].PVCUIDSet = {<<1, k, 0>> : k \in 1 .. PVCsPerPod}
    /\ HasCall(calls, "DeleteMemberByID", TRUE)
    /\ \E x \in Claims : x[1] = 1 /\ pvcs[x].uid > 0

\* ---------------------------------------------------------------- C21
\* C21: for a failure mapping of any size K >= 1 and any desired replica count
\* R (below, equal to or above K), Recover leaves the mapping empty and the
\* desired replicas at exactly R; Recover on the empty mapping changes
\* nothing, so every step that changes anything starts from a non-empty mapping.
C21_RecoverClearsAndKeepsReplicas_Step ==
    /\ FailureMembers # EmptyMap
    /\ FailureMembers' = EmptyMap
    /\ SpecReplicas' = SpecReplicas
    /\ UNCHANGED <<Members, PeerMembers, Synced, MaxFailoverCount, pods, pvcs, now>>

C21_RecoverClearsAndKeepsReplicas == [][C21_RecoverClearsAndKeepsReplicas_Step]_vars

\* Recover has emptied a mapping while fewer replicas are desired than the
\* mapping had entries
C21_Witness ==
    /\ FailureMembers = EmptyMap
    /\ SpecReplicas = 1
    /\ Cardinality(UnhealthyMembers(Members)) = 2

\* ---------------------------------------------------------------- C22
\* C22: a pass over a status that is not synced returns the error of the
\* failed sync, records no event and changes neither the failure members,
\* the pods, the claims nor the desired replicas, whatever the health of the
\* members.
C22_NotSyncedIsAnErrorOnly_Step ==
    ~Synced => /\ err' = "pd status sync failed"
               /\ events' = <<>>
               /\ NoTeardown
               /\ SpecReplicas' = SpecReplicas

C22_NotSyncedIsAnErrorOnly == [][PassStep => C22_NotSyncedIsAnErrorOnly_Step]_vars

\* a pass has returned the error while a member was unhealthy
C22_Witness ==
    /\ ~Synced
    /\ err = "pd status sync failed"
    /\ UnhealthyMembers(Members) # {}

\* ---------------------------------------------------------------- C23
\* C23: when passes keep being scheduled and the external calls eventually
\* succeed, every failure member that is not deleted, whose member id is a
\* number and whose cluster is in quorum, is eventually deleted (or recovered
\* with the whole mapping); the retried passes deregister the member again.
Reapable(i) ==
    /\ i \in DOMAIN FailureMembers
    /\ ~FailureMembers[i].MemberDeleted
    /\ IsDecimal(FailureMembers[i].MemberID)
    /\ Synced
    /\ isPDInQuorum(Members, PeerMembers)

Reaped(i) == i \notin DOMAIN FailureMembers \/ FailureMembers[i].MemberDeleted

C23_EventuallyDeleted == \A i \in Ordinals : Reapable(i) ~> Reaped(i)

\* the statement without the conditions on the member id and the quorum
C23_EveryMemberEventuallyDeleted ==
    \A i \in Ordinals :
        (i \in DOMAIN FailureMembers /\ ~FailureMembers[i].MemberDeleted) ~> Reaped(i)

\* the member is deleted, its pod and its claims are gone, and the last pass
\* was one of the teardown
C23_Witness ==
    /\ 1 \in DOMAIN FailureMembers
    /\ FailureMembers[1].MemberDeleted
    /\ IsDecimal(FailureMembers[1].MemberID)
    /\ pods[1] = "absent"
    /\ HasCall(calls, "DeleteMemberByID", TRUE)

\* ================================================================ Upgrade pass
\* the pass is held back: PD is upgrading, or TiFlash is scaling
HeldBack == PDPhase = UpgradePhase \/ TiFlashScaling(TiFlash)

Partition(set) == set.UpdateStrategy.Partition

\* ---------------------------------------------------------------- C24
\* C24: a pass over a status that is not synced, while PD is not upgrading and
\* TiFlash is not scaling, returns the error of the status not being synced
\* and changes neither the new set (its partition included) nor the phase.
C24_NotSyncedStopsThePass_Step ==
    (~TiFlash.Synced /\ ~HeldBack)
    => /\ upgradeErr' = "TiFlash status is not synced"
       /\ newSet' = newSet
       /\ TiFlash' = TiFlash
       /\ upgradeLog' = <<>>

C24_NotSyncedStopsThePass == [][UpgradePass => C24_NotSyncedStopsThePass_Step]_vars

\* the statement for every status that is not synced
C24_NotSyncedAlwaysAnError ==
    [][(UpgradePass /\ ~TiFlash.Synced)
       => (upgradeErr' # "nil" /\ Partition(newSet') = Partition(newSet)
           /\ TiFlash'.Phase = TiFlash.Phase)]_vars

\* a pass has returned the error
C24_Witness ==
    /\ ~TiFlash.Synced
    /\ ~HeldBack
    /\ upgradeErr = "TiFlash status is not synced"
    /\ TiFlash.Phase = NormalPhase

\* ---------------------------------------------------------------- C25
\* C25: a pass while PD is upgrading or TiFlash is scaling, over an old set
\* whose last applied configuration can be read, returns no error: the new set
\* takes the last applied pod template, and its update strategy (the
\* partition included) and the phase stay as they were.
C25_HeldBackKeepsTemplate_Step ==
    (HeldBack /\ oldSet.LastApplied # "none")
    => /\ upgradeErr' = "nil"
       /\ newSet'.Template = oldSet.LastApplied
       /\ newSet'.UpdateStrategy = newSet.UpdateStrategy
       /\ TiFlash' = TiFlash
       /\ upgradeLog' = <<>>

C25_HeldBackKeepsTemplate == [][UpgradePass => C25_HeldBackKeepsTemplate_Step]_vars

\* the statement for every old set, readable or not
C25_HeldBackNeverAnError == [][(UpgradePass /\ HeldBack) => upgradeErr' = "nil"]_vars

\* a held back pass has replaced the template of the new set
C25_Witness ==
    /\ HeldBack
    /\ upgradeErr = "nil"
    /\ oldSet.LastApplied = "t2"
    /\ newSet.Template = "t2"
    /\ ~TiFlash.Synced

\* ---------------------------------------------------------------- C26
\* the pass gets as far as the comparison of the templates
Proceeds == ~HeldBack /\ TiFlash.Synced

RevisionsEqual == TiFlash.UpdateRevision = TiFlash.CurrentRevision

\* the pod template of the new set is the one last applied to the old set
SameTemplate == newSet.Template = oldSet.LastApplied

\* C26: a pass that gets as far as the comparison and finds the pod template
\* of the new set different from the one last applied to the old set, or the
\* current revision equal to the update revision, returns no error and leaves
\* the new set, its partition included, as it was; no ordinal is looked at, and
\* the phase is Upgrade.
C26_NothingToRollOut_Step ==
    (Proceeds /\ (~SameTemplate \/ RevisionsEqual))
    => /\ upgradeErr' = "nil"
       /\ newSet' = newSet
       /\ upgradeLog' = <<>>
       /\ TiFlash'.Phase = UpgradePhase

C26_NothingToRollOut == [][UpgradePass => C26_NothingToRollOut_Step]_vars

\* the statement as made: an unchanged template, or equal revisions
C26_UnchangedTemplateIsNoOp ==
    [][(UpgradePass /\ Proceeds /\ (SameTemplate \/ RevisionsEqual))
       => (upgradeErr' = "nil" /\ Partition(newSet') = Partition(newSet))]_vars

\* a pass has returned over a new template while the revisions differ
C26_Witness ==
    /\ Proceeds
    /\ ~SameTemplate
    /\ ~RevisionsEqual
    /\ upgradeErr = "nil"
    /\ TiFlash.Phase = UpgradePhase
    /\ Partition(newSet) = MaxOrdinal + 1
    /\ oldSet.UpdateStrategy = RollingUpdateAt(MaxOrdinal)

\* ---------------------------------------------------------------- C27
\* the update strategy of the old set has been changed by hand
ManuallyModified ==
    oldSet.UpdateStrategy.Type = "OnDelete" \/ ~oldSet.UpdateStrategy.HasRollingUpdate

\* the pass gets as far as the update strategy of the old set
ReachesStrategy == Proceeds /\ SameTemplate /\ ~RevisionsEqual

\* C27: a pass that finds the update strategy of the old set to be OnDelete, or
\* to carry no RollingUpdate, hands that strategy on to the new set as it is,
\* looks at no ordinal, logs one warning and returns no error.
C27_ManualStrategyAdopted_Step ==
    (ReachesStrategy /\ ManuallyModified)
    => /\ upgradeErr' = "nil"
       /\ newSet'.UpdateStrategy = oldSet.UpdateStrategy
       /\ newSet'.Template = newSet.Template
       /\ upgradeLog' = <<ManualWarning>>

ReachesScan == ReachesStrategy /\ ~ManuallyModified

\* the ordinal has a store record and a pod that carries the update revision
OnTarget(j) ==
    /\ HasStore(TiFlash, j)
    /\ tiflashPods[j].exists
    /\ tiflashPods[j].revision = TiFlash.UpdateRevision

\* the ordinal has a store record and a pod that carries another revision
OffTarget(j) ==
    /\ HasStore(TiFlash, j)
    /\ tiflashPods[j].exists
    /\ tiflashPods[j].revision \notin {"none", TiFlash.UpdateRevision}

\* the checks made of a pod on the update revision
PassesChecks(j) ==
    /\ tiflashPods[j].ready
    /\ \A s \in TiFlash.Stores : s.PodName = j => s.State = TiKVStateUp
    /\ needCheckStatus(TiFlashVersion) => StoreStatus[j] = Running

LookedAt(log, j) == \E k \in 1 .. Len(log) : log[k][1] # "warning" /\ log[k][2] = j

\* C28: when every ordinal above an ordinal is present, on the update revision
\* and passes its checks, and the pod of that ordinal carries another revision,
\* the scan returns no error with the partition at that ordinal, and looks at
\* no ordinal below it.
C28_StopsAtHighestOffTarget_Step ==
    ReachesScan
    => \A i \in StoreOrdinals :
          (OffTarget(i) /\ \A j \in StoreOrdinals : j > i => (OnTarget(j) /\ PassesChecks(j)))
          => /\ upgradeErr' = "nil"
             /\ Partition(newSet') = i
             /\ LookedAt(upgradeLog', i)
             /\ \A j \in StoreOrdinals : j < i => ~LookedAt(upgradeLog', j)

C28_StopsAtHighestOffTarget == [][UpgradePass => C28_StopsAtHighestOffTarget_Step]_vars

\* the scan has stopped at ordinal 1, below a pod on the update revision and
\* above a pod on the old one
C28_Witness ==
    /\ ReachesScan
    /\ OnTarget(2) /\ PassesChecks(2)
    /\ OffTarget(1)
    /\ OffTarget(0)
    /\ upgradeErr = "nil"
    /\ Partition(newSet) = 1
    /\ Partition(oldSet) = MaxOrdinal + 1

\* ---------------------------------------------------------------- C29
\* C29: after a pass that went through the scan and returned no error, every
\* ordinal above the partition of the new set that has a store record is on
\* the update revision with its pod ready, its store Up and, where the version
\* calls for the status, its store status Running.
C29_AbovePartitionHealthy_Step ==
    (ReachesScan /\ upgradeErr' = "nil")
    => \A j \in StoreOrdinals :
          (j > Partition(newSet') /\ HasStore(TiFlash, j))
          => (OnTarget(j) /\ PassesChecks(j))

PodLookedUp(log, j) == \E k \in 1 .. Len(log) : log[k] = <<"pod", j>>

\* C30: an ordinal without a store record is no error: reached by the scan,
\* its pod is not looked up and the scan goes on with the ordinal below; when
\* every other ordinal is on the update revision and passes its checks, the
\* pass returns no error with the partition at the ordinal without record.
C30_MissingRecordSetsPartition_Step ==
    ReachesScan
    => \A k \in StoreOrdinals :
          (~HasStore(TiFlash, k)
           /\ \A j \in StoreOrdinals : j > k => (OnTarget(j) /\ PassesChecks(j)))
          => /\ ~PodLookedUp(upgradeLog', k)
             /\ k > 0 => LookedAt(upgradeLog', k - 1)
             /\ (\A j \in StoreOrdinals : j < k => (OnTarget(j) /\ PassesChecks(j)))
                => (upgradeErr' = "nil" /\ Partition(newSet') = k)

C30_MissingRecordSetsPartition == [][UpgradePass => C30_MissingRecordSetsPartition_Step]_vars

\* ordinal 1 has no store record, ordinals 0 and 2 are on the update revision:
\* the pass has set the partition to 1
C30_Witness ==
    /\ ReachesScan
    /\ ~HasStore(TiFlash, 1)
    /\ OnTarget(0) /\ PassesChecks(0)
    /\ OnTarget(2) /\ PassesChecks(2)
    /\ upgradeErr = "nil"
    /\ Partition(newSet) = 1
    /\ Partition(oldSet) = MaxOrdinal + 1
    /\ LookedAt(upgradeLog, 0)

\* ---------------------------------------------------------------- C31
\* the errors made with RequeueErrorf: the pass is to be tried again
RequeueErrors ==
    {"pod has no label", "pod is not ready", "store state is not UP",
     "get store status failed", "store status is not Running"}

NotReadyErrors == RequeueErrors \ {"pod has no label"}

\* the scan gets to the ordinal: every ordinal above has no store record, or
\* is on the update revision and passes its checks
ScanGetsTo(i) ==
    \A j \in StoreOrdinals :
        j > i => (~HasStore(TiFlash, j) \/ (OnTarget(j) /\ PassesChecks(j)))

AbsentAbove(i) == {j \in StoreOrdinals : j > i /\ ~HasStore(TiFlash, j)}

Lowest(S) == CHOOSE x \in S : \A y \in S : x <= y

\* the ordinal is on the update revision and fails one of its checks
FailsChecks(i) == OnTarget(i) /\ ~PassesChecks(i)

\* C31: when the scan gets to a pod on the update revision that fails a check
\* (pod not ready, store not Up, store status not Running or not to be had),
\* the pass returns an error that asks for a retry; the partition of the new
\* set is then the partition of the old set, unless an ordinal above had no
\* store record: then it is the lowest such ordinal.
C31_NotReadyLeavesScanResult_Step ==
    ReachesScan
    => \A i \in StoreOrdinals :
          (ScanGetsTo(i) /\ FailsChecks(i))
          => /\ upgradeErr' \in NotReadyErrors
             /\ Partition(newSet') = IF AbsentAbove(i) = {} THEN Partition(oldSet)
                                     ELSE Lowest(AbsentAbove(i))
             /\ \A j \in StoreOrdinals : j < i => ~LookedAt(upgradeLog', j)

C31_NotReadyLeavesScanResult == [][UpgradePass => C31_NotReadyLeavesScanResult_Step]_vars

\* the statement as made: the partition of the old set in every case
C31_NotReadyKeepsOldPartition ==
    [][(UpgradePass /\ ReachesScan)
       => \A i \in StoreOrdinals :
             (ScanGetsTo(i) /\ FailsChecks(i))
             => (upgradeErr' \in NotReadyErrors
                 /\ Partition(newSet') = Partition(oldSet))]_vars

\* a pass has failed at ordinal 0 after an ordinal without store record
C31_Witness ==
    /\ ReachesScan
    /\ ScanGetsTo(0) /\ FailsChecks(0)
    /\ AbsentAbove(0) = {1}
    /\ upgradeErr = "pod is not ready"
    /\ Partition(newSet) = 1
    /\ Partition(oldSet) = MaxOrdinal + 1

\* ---------------------------------------------------------------- C32
\* the tags that call for the store status: the two of the allow list, and
\* the versions at or above 5.1.2, its pre-releases included
GateTags == {TagLastest, TagNightly, TagV512Alpha, TagV512, TagShort60}

StatusAsked(log, j) == \E k \in 1 .. Len(log) : log[k] = <<"status", j>>

\* the scan gets to the ordinal, whose pod is on the update revision and
\* ready, with its store Up
ReadyOnTarget(j) ==
    /\ ScanGetsTo(j)
    /\ OnTarget(j)
    /\ tiflashPods[j].ready
    /\ \A s \in TiFlash.Stores : s.PodName = j => s.State = TiKVStateUp

\* C32: for a ready pod on the update revision whose store is Up, the store
\* status is asked for exactly when the image tag is one of the allow list or
\* is a version at or above 5.1.2 (pre-releases of 5.1.2 included); then a
\* status other than Running, or none, ends the pass with an error; under any
\* other tag, unparsable ones included, the status is not asked for and the
\* scan goes past the pod whatever its status.
C32_GateExactlyForGateTags_Step ==
    ReachesScan
    => \A j \in StoreOrdinals :
          ReadyOnTarget(j)
          => /\ StatusAsked(upgradeLog', j) <=> TiFlashVersion \in GateTags
             /\ (TiFlashVersion \in GateTags /\ StoreStatus[j] # Running)
                => upgradeErr' \in {"get store status failed", "store status is not Running"}
             /\ TiFlashVersion \notin GateTags
                => (j > 0 => LookedAt(upgradeLog', j - 1))

C32_GateExactlyForGateTags == [][UpgradePass => C32_GateExactlyForGateTags_Step]_vars

\* under a pre-release of 5.1.2 the pass has ended at a store that is not Running
C32_Witness ==
    /\ ReachesScan
    /\ TiFlashVersion = TagV512Alpha
    /\ ReadyOnTarget(MaxOrdinal)
    /\ StoreStatus[MaxOrdinal] = "Idle"
    /\ upgradeErr = "store status is not Running"
    /\ StatusAsked(upgradeLog, MaxOrdinal)

\* ---------------------------------------------------------------- C33
AllOnTarget == \A j \in StoreOrdinals : OnTarget(j) /\ PassesChecks(j)

\* C33: when every ordinal has a pod on the update revision that passes its
\* checks, the scan looks at every ordinal, returns no error and leaves the
\* partition where the old set has it, the lowest value the rollout has
\* brought it to.
C33_AllOnTargetKeepsPartition_Step ==
    (ReachesScan /\ AllOnTarget)
    => /\ upgradeErr' = "nil"
       /\ Partition(newSet') = Partition(oldSet)
       /\ \A j \in StoreOrdinals : LookedAt(upgradeLog', j)

Unfinished(j) == ~HasStore(TiFlash, j) \/ OffTarget(j)

\* C34: when the scan gets to an ordinal without store record and the pass
\* returns no error, the partition of the new set is at or below that
\* ordinal, at an ordinal that has no store record or a pod of another
\* revision; it is below exactly when some lower ordinal has no store record
\* or a pod of another revision.
C34_MissingRecordDoesNotBlock_Step ==
    (ReachesScan /\ upgradeErr' = "nil")
    => \A k \in StoreOrdinals :
          (ScanGetsTo(k) /\ ~HasStore(TiFlash, k))
          => /\ Partition(newSet') <= k
             /\ Unfinished(Partition(newSet'))
             /\ Partition(newSet') < k <=> \E j \in StoreOrdinals : j < k /\ Unfinished(j)

C34_MissingRecordDoesNotBlock == [][UpgradePass => C34_MissingRecordDoesNotBlock_Step]_vars

\* the statement as made: the partition is never below an ordinal without
\* store record
C34_MissingRecordBlocks ==
    [][(UpgradePass /\ ReachesScan /\ upgradeErr' = "nil")
       => \A k \in StoreOrdinals : ~HasStore(TiFlash, k) => Partition(newSet') >= k]_vars

\* ordinal 2 has no store record, the pod of ordinal 1 is on the old revision:
\* the pass has set the partition to 1
C34_Witness ==
    /\ ReachesScan
    /\ ~HasStore(TiFlash, 2)
    /\ OffTarget(1)
    /\ upgradeErr = "nil"
    /\ Partition(newSet) = 1
    /\ Partition(oldSet) = MaxOrdinal + 1

\* ---------------------------------------------------------------- C35
StoreUp(j) == \A s \in TiFlash.Stores : s.PodName = j => s.State = TiKVStateUp

\* C35: a pod on the update revision that the scan gets to is passed only if
\* it is ready and its store is Up: otherwise the pass ends there with the
\* error of the pod not being ready, or of the store not being Up. A pod of
\* another revision gets the partition set at it, with no error, ready or
\* not, store Up or not.
C35_ChecksOnlyOnTarget_Step ==
    ReachesScan
    => \A j \in StoreOrdinals :
          ScanGetsTo(j)
          => /\ (OnTarget(j) /\ ~tiflashPods[j].ready) => upgradeErr' = "pod is not ready"
             /\ (OnTarget(j) /\ tiflashPods[j].ready /\ ~StoreUp(j))
                => upgradeErr' = "store state is not UP"
             /\ (OnTarget(j) /\ ~(tiflashPods[j].ready /\ StoreUp(j)))
                => \A l \in StoreOrdinals : l < j => ~LookedAt(upgradeLog', l)
             /\ OffTarget(j) => (upgradeErr' = "nil" /\ Partition(newSet') = j)

C35_ChecksOnlyOnTarget == [][UpgradePass => C35_ChecksOnlyOnTarget_Step]_vars

\* the statement as made: ready and Up are required of every pod with a
\* store record, whatever its revision
C35_ChecksWhateverTheRevision ==
    [][(UpgradePass /\ ReachesScan)
       => \A j \in StoreOrdinals :
             (ScanGetsTo(j) /\ (OnTarget(j) \/ OffTarget(j))
              /\ ~(tiflashPods[j].ready /\ StoreUp(j)))
             => upgradeErr' \in NotReadyErrors]_vars

\* the partition has been set at a pod of the old revision that is not ready
C35_Witness ==
    /\ ReachesScan
    /\ ScanGetsTo(1)
    /\ OffTarget(1)
    /\ ~tiflashPods[1].ready
    /\ upgradeErr = "nil"
    /\ Partition(newSet) = 1
    /\ Partition(oldSet) = MaxOrdinal + 1

\* ---------------------------------------------------------------- C37
\* C37: a pass sets the phase to Upgrade exactly when PD is not upgrading,
\* TiFlash is not scaling and the status is synced, whatever the pass then
\* finds and returns: a new template, equal revisions, an update strategy set
\* by hand, an error of the scan. Every other pass leaves the phase as it was.
C37_PhaseSetOnceSynced_Step ==
    /\ Proceeds => TiFlash'.Phase = UpgradePhase
    /\ ~Proceeds => TiFlash'.Phase = TiFlash.Phase

C37_PhaseSetOnceSynced == [][UpgradePass => C37_PhaseSetOnceSynced_Step]_vars

\* the statement as made: a pass that ends early with nothing to roll out, or
\* with an error, leaves the phase as it was
C37_PhaseOnlyWithWork ==
    [][(UpgradePass
        /\ (upgradeErr' # "nil" \/ (Proceeds /\ (~SameTemplate \/ RevisionsEqual))))
       => TiFlash'.Phase = TiFlash.Phase]_vars

\* a pass over equal revisions has changed the phase from Normal to Upgrade
C37_Witness ==
    /\ Proceeds
    /\ RevisionsEqual
    /\ SameTemplate
    /\ upgradeErr = "nil"
    /\ upgradeLog = <<>>
    /\ TiFlash.Phase = UpgradePhase
    /\ Partition(newSet) = MaxOrdinal + 1

\* ---------------------------------------------------------------- C38
\* the ordinal has a store record and a pod that cannot be fetched or that
\* carries no revision label
UnknownPod(j) ==
    /\ HasStore(TiFlash, j)
    /\ (~tiflashPods[j].exists \/ tiflashPods[j].revision = "none")

\* C38: when the scan gets to an ordinal with a store record whose pod cannot
\* be fetched or carries no revision label, the pass returns an error (a plain
\* one for the pod, one that asks for a retry for the label), looks at no
\* ordinal below, and leaves the partition of the new set where the scan had it
\* above that ordinal: the partition of the old set, or the lowest ordinal
\* above without a store record. The partition is never set at or below the
\* ordinal by the pass.
C38_UnknownPodEndsPass_Step ==
    ReachesScan
    => \A j \in StoreOrdinals :
          (ScanGetsTo(j) /\ UnknownPod(j))
          => /\ ~tiflashPods[j].exists => upgradeErr' = "failed to get pod"
             /\ tiflashPods[j].exists => upgradeErr' = "pod has no label"
             /\ PodLookedUp(upgradeLog', j)
             /\ \A l \in StoreOrdinals : l < j => ~LookedAt(upgradeLog', l)
             /\ Partition(newSet') =
                   IF AbsentAbove(j) = {} THEN Partition(oldSet) ELSE Lowest(AbsentAbove(j))
             /\ (Partition(newSet') > j \/ Partition(newSet') = Partition(oldSet))

C38_UnknownPodEndsPass == [][UpgradePass => C38_UnknownPodEndsPass_Step]_vars

\* the pod of ordinal 1 cannot be fetched, ordinal 2 is on the update revision:
\* the pass has ended with the error, ordinal 0 not looked at
C38_Witness ==
    /\ ReachesScan
    /\ OnTarget(2) /\ PassesChecks(2)
    /\ HasStore(TiFlash, 1) /\ ~tiflashPods[1].exists
    /\ OffTarget(0)
    /\ upgradeErr = "failed to get pod"
    /\ PodLookedUp(upgradeLog, 1)
    /\ ~LookedAt(upgradeLog, 0)
    /\ Partition(oldSet) = MaxOrdinal
    /\ Partition(newSet) = MaxOrdinal

\* ---------------------------------------------------------------- C39
DeregisteredOK(cs, i) ==
    {n \in 1 .. Len(cs) : cs[n].op = "DeleteMemberByID" /\ cs[n].pod = i /\ cs[n].ok}

\* the unhealthy events a pass recorded for the member of a pod
MemberUnhealthyEvents(ev, i) ==
    {k \in 1 .. Len(ev) : ev[k].reason = "PDMemberUnhealthy" /\ ev[k].pod = i /\ ~ev[k].peer}

PeerUnhealthyEventsOf(ev, p) ==
    {k \in 1 .. Len(ev) : ev[k].reason = "PDMemberUnhealthy" /\ ev[k].pod = p /\ ev[k].peer}

DeletedEvents(ev, i) == {k \in 1 .. Len(ev) : ev[k].reason = "PDMemberDeleted" /\ ev[k].pod = i}

\* C39: a pass over a status that is not synced records no event. A pass over
\* a synced status records one unhealthy event for every unhealthy entry of
\* Members and of PeerMembers and none for a healthy one, and one more for the
\* member it marks as failure; it records the deleted event for a member
\* exactly when its deregistration call succeeded in the pass, whether or not
\* the pod and claim deletions that follow succeed and the deleted flag is set.
C39_EventsOfAPass_Step ==
    /\ ~Synced => events' = <<>>
    /\ Synced
       => /\ \A i \in Ordinals :
                Cardinality(MemberUnhealthyEvents(events', i))
                   = (IF Members[i].Health THEN 0 ELSE 1) + (IF Added(i) THEN 1 ELSE 0)
          /\ \A p \in PeerNames :
                Cardinality(PeerUnhealthyEventsOf(events', p))
                   = IF p \in DOMAIN PeerMembers /\ ~PeerMembers[p].Health THEN 1 ELSE 0
    /\ \A i \in Ordinals :
          Cardinality(DeletedEvents(events', i)) = Cardinality(DeregisteredOK(calls', i))
    /\ \A i \in Ordinals : Cardinality(DeregisteredOK(calls', i)) <= 1

ApplySet(old, new, e) ==
    IF e = "nil" THEN [old EXCEPT !.UpdateStrategy = new.UpdateStrategy] ELSE old

\* one reconciliation: the Upgrade pass, then the update of the stateful set
ReconcilePass ==
    \E r \in {Upgrade(PDPhase, TiFlash, TiFlashVersion, tiflashPods, StoreStatus,
                      oldSet, newSet)} :
        /\ TiFlash' = [TiFlash EXCEPT !.Phase = r.Phase]
        /\ newSet' = r.newSet
        /\ upgradeErr' = r.err
        /\ upgradeLog' = r.log
        /\ oldSet' = ApplySet(oldSet, r.newSet, r.err)
        /\ UNCHANGED <<PDPhase, TiFlashVersion, tiflashPods, StoreStatus>>
        /\ UNCHANGED <<SpecReplicas, failoverVars, updateVars>>

\* the stateful set controller replaces a pod at or above the partition that
\* is not on the update revision; the store of the pod goes down, or its
\* record goes
ReplacePod(i) ==
    /\ oldSet.UpdateStrategy.Type = "RollingUpdate"
    /\ oldSet.UpdateStrategy.HasRollingUpdate
    /\ i >= oldSet.UpdateStrategy.Partition
    /\ tiflashPods[i].revision # TiFlash.UpdateRevision
    /\ tiflashPods' = [tiflashPods EXCEPT ![i] = [exists |-> TRUE,
                                                   revision |-> TiFlash.UpdateRevision,
                                                   ready |-> FALSE]]
    /\ \E lost \in BOOLEAN :
          TiFlash' = [TiFlash EXCEPT !.Stores =
                         (@ \ StoresOfOrdinal(TiFlash, i))
                         \cup (IF lost THEN {} ELSE {[PodName |-> i, State |-> "Down"]})]
    /\ StoreStatus' = [StoreStatus EXCEPT ![i] = "Idle"]
    /\ UNCHANGED <<PDPhase, TiFlashVersion, oldSet, newSet, upgradeErr, upgradeLog>>
    /\ UNCHANGED <<SpecReplicas, failoverVars, updateVars>>

\* the replaced pod becomes Ready
PodReady(i) ==
    /\ tiflashPods[i].revision = TiFlash.UpdateRevision
    /\ ~tiflashPods[i].ready
    /\ tiflashPods' = [tiflashPods EXCEPT ![i].ready = TRUE]
    /\ UNCHANGED <<PDPhase, TiFlash, TiFlashVersion, StoreStatus, oldSet, newSet,
                   upgradeErr, upgradeLog>>
    /\ UNCHANGED <<SpecReplicas, failoverVars, updateVars>>

\* the store of the replaced pod is registered, Up and Running
StoreJoins(i) ==
    /\ tiflashPods[i].revision = TiFlash.UpdateRevision
    /\ \/ StoresOfOrdinal(TiFlash, i) # {[PodName |-> i, State |-> TiKVStateUp]}
       \/ StoreStatus[i] # Running
    /\ TiFlash' = [TiFlash EXCEPT !.Stores =
                      (@ \ StoresOfOrdinal(TiFlash, i))
                      \cup {[PodName |-> i, State |-> TiKVStateUp]}]
    /\ StoreStatus' = [StoreStatus EXCEPT ![i] = Running]
    /\ UNCHANGED <<PDPhase, TiFlashVersion, tiflashPods, oldSet, newSet,
                   upgradeErr, upgradeLog>>
    /\ UNCHANGED <<SpecReplicas, failoverVars, updateVars>>

\* a storage group on the old revision, every pod Ready and every store Up,
\* the partition at the number of replicas; the update revision is new; an
\* image tag for which the store status is asked, or one for which it is not
InitRollout ==
    /\ PDPhase = NormalPhase
    /\ TiFlash = [Phase |-> NormalPhase, Synced |-> TRUE,
                  CurrentRevision |-> "rev-old", UpdateRevision |-> "rev-new",
                  Stores |-> {[PodName |-> i, State |-> TiKVStateUp] : i \in StoreOrdinals}]
    /\ TiFlashVersion \in {TagLastest, TagLatest}
    /\ tiflashPods = [i \in StoreOrdinals |->
                         [exists |-> TRUE, revision |-> "rev-old", ready |-> TRUE]]
    /\ StoreStatus = [i \in StoreOrdinals |-> Running]
    /\ oldSet = [Replicas |-> MaxOrdinal + 1, LastApplied |-> "t1",
                 UpdateStrategy |-> RollingUpdateAt(MaxOrdinal + 1)]
    /\ newSet = [Template |-> "t1", UpdateStrategy |-> RollingUpdateAt(MaxOrdinal + 1)]
    /\ upgradeErr = "no pass yet"
    /\ upgradeLog = <<>>
    /\ IdleFailover
    /\ IdleUpdate

NextRollout ==
    \/ ReconcilePass
    \/ \E i \in StoreOrdinals : ReplacePod(i)
    \/ \E i \in StoreOrdinals : PodReady(i)
    \/ \E i \in StoreOrdinals : StoreJoins(i)

SpecRollout == InitRollout /\ [][NextRollout]_vars

\* a step of the stateful set controller, of a replaced pod or of its store
ClusterStep ==
    \E i \in StoreOrdinals : ReplacePod(i) \/ PodReady(i) \/ StoreJoins(i)

\* the reconciliation is repeated; the stateful set controller, the replaced
\* pods and their stores do not stop while there is something for them to do
RolloutFairness == WF_vars(ReconcilePass) /\ WF_vars(ClusterStep)

SpecRolloutFair == SpecRollout /\ RolloutFairness

\* ---------------------------------------------------------------- C36
OldPodsInReach ==
    {i \in StoreOrdinals :
        tiflashPods[i].revision # TiFlash.UpdateRevision /\ i >= Partition(oldSet)}

RolledOut == \A i \in StoreOrdinals : tiflashPods[i].revision = TiFlash.UpdateRevision

PassSucceeds == ReconcilePass /\ upgradeErr' = "nil"

C40_RetryLoop_Step ==
    /\ attempts' <= RetrySteps
    /\ held'.meta = wanted
    /\ updateErr' = "nil"
       => /\ updateState' = "returned"
          /\ held.version = kubeObject.version
          /\ kubeObject' = Object(kubeObject.version + 1, wanted, kubeObject.rest)
          /\ updated' = <<kubeObject'>>
    /\ updateErr' = "other"
       => /\ updateState' = "returned"
          /\ kubeObject' = kubeObject
    /\ updateErr' = "conflict"
       => /\ kubeObject' = kubeObject
          /\ updateState' = (IF attempts' < RetrySteps THEN "running" ELSE "returned")
          /\ held' \in {held,
                        [(IF updateKind = "pv" THEN listerObject ELSE kubeObject)
                            EXCEPT !.meta = wanted]}

C40_RetryLoop == [][UpdateAttempt => C40_RetryLoop_Step]_vars

\* the statement as made: after a conflict the attempt that follows is made
\* with the latest object
C40_RetryHoldsLatest ==
    [][(UpdateAttempt /\ updateErr' = "conflict" /\ updateState' = "running")
       => held'.version = kubeObject.version]_vars

\* the first attempt on a volume met a conflict with another client's write
\* to the rest of the object, the second went through: the stored object has
\* the wanted labels on the other client's content
C40_Witness ==
    /\ updateKind = "pv"
    /\ updateState = "returned"
    /\ updateErr = "nil"
    /\ attempts = 2
    /\ kubeObject.meta = wanted
    /\ wanted.managed = "want"
    /\ kubeObject.rest > 0
    /\ updated = <<kubeObject>>

====
